---- MODULE Spec2Model ----
(***************************************************************************)
(* Calais: streaming of a JSON envelope from a generation client.          *)
(*                                                                         *)
(*   calais/content_printer.py  ContentPrinter  (incremental extractor)    *)
(*   calais/response.py         Response        (structured decode)        *)
(*   calais/chat.py             Chat            (retry orchestrator)       *)
(*                                                                         *)
(* Text is a sequence of one-character strings.  A retry notice written by *)
(* Chat._handle_retry is one multi-character string standing for its       *)
(* characters.                                                             *)
(***************************************************************************)
EXTENDS Integers, Sequences, FiniteSets, TLC

VARIABLES
    \* ---- ContentPrinter (calais/content_printer.py) and the output stream
    content_printer,    \* [printing_contents, accumulated_chunk, something_printed]
    stdout,             \* everything written to standard output, in order
    printed_raw,        \* the texts handed to _print_unescaped_chunk, in order
    last_call,          \* the last ContentPrinter method that ran
    finish_calls,       \* number of finish() calls on the current content_printer
    printer_exception,  \* the exception that left a ContentPrinter method, if any
    \* ---- the driver of a lone ContentPrinter
    logical_text,       \* the logical text T that is fed in fragments
    fed,                \* number of characters of T fed so far
    was_printing,       \* the driver has seen the printer printing after a print_chunk call
    \* ---- Response (calais/response.py)
    resp,               \* a Response object
    json_str,           \* the result of resp.to_json()
    decoded,            \* the outcome of Response.from_json(json_str)
    rpc,                \* position of the Response round trip
    \* ---- Chat (calais/chat.py)
    pc,                 \* control position of the turn
    max_retries,        \* Chat.max_retries
    max_empty_chunks,   \* Chat.max_empty_chunks
    print_chunks,       \* the print_chunks argument of the turn
    conversation,       \* Chat.conversation
    retries,            \* local retries of _generate_response
    worker,             \* the executor's worker running Chat._call_api
    behaviour,          \* what the client does in the current attempt
    response,           \* the part of the stream not yet consumed
    text,               \* local text of _call_gpt_api
    empty_chunk_count,  \* local empty_chunk_count of _call_gpt_api
    pending,            \* the exception in flight, or the value being returned
    outcome,            \* how the turn ended
    api_calls,          \* number of calls of client.call_api so far
    attempts,           \* number of calls of _call_gpt_api so far
    sleeps,             \* number of time.sleep(retry_delay) calls so far
    chunks_read,        \* number of stream elements consumed in this attempt
    all_undecodable,    \* every attempt so far received text that is no JSON
    \* ---- do_command (calais/main.py)
    cmd_pc,             \* control position of do_command
    response_command,   \* response.command
    command_local,      \* local command of do_command, and re.sub's result so far
    sub_rest,           \* the part of the command re.sub has not scanned yet
    placeholder_inputs, \* what the user typed for the placeholders, in order
    user_input,         \* local user_input of do_command
    executed,           \* the commands handed to subprocess.run, in order
    user_prompt,        \* the prompt do_command returns, and converse's user_prompt
    prompt_read         \* input() has been called since the last call_gpt4 call

vars == <<content_printer, stdout, printed_raw, last_call, finish_calls,
          printer_exception, logical_text, fed, was_printing,
          resp, json_str, decoded, rpc,
          pc, max_retries, max_empty_chunks, print_chunks, conversation,
          retries, worker, behaviour, response, text, empty_chunk_count,
          pending, outcome, api_calls, attempts, sleeps, chunks_read,
          all_undecodable,
          cmd_pc, response_command, command_local, sub_rest, placeholder_inputs,
          user_input, executed, user_prompt, prompt_read>>

printer_vars == <<content_printer, stdout, printed_raw, last_call, finish_calls,
                  printer_exception>>
driver_vars == <<logical_text, fed, was_printing>>
response_vars == <<resp, json_str, decoded, rpc>>
chat_vars == <<pc, max_retries, max_empty_chunks, print_chunks, conversation,
               retries, worker, behaviour, response, text, empty_chunk_count,
               pending, outcome, api_calls, attempts, sleeps, chunks_read,
               all_undecodable>>
command_vars == <<cmd_pc, response_command, command_local, sub_rest, placeholder_inputs,
                  user_input, executed, user_prompt, prompt_read>>

(***************************************************************************)
(* Bounds of the model.                                                    *)
(***************************************************************************)
MaxPayload == 3         \* longest field value of a logical text
MaxFieldLen == 2        \* longest content string of a Response
MaxOtherLen == 1        \* longest command or error string of a Response
MaxRetriesBound == 2    \* largest max_retries a Chat is constructed with
MaxEmptyBound == 1      \* largest max_empty_chunks a Chat is constructed with
MaxFinishCalls == 2     \* most finish() calls made on a lone ContentPrinter
MaxBlankChunks == 2     \* most blank fragments in front of a stop fragment
MaxTurns == 2           \* most call_gpt4 calls of a session

(***************************************************************************)
(* Characters.                                                             *)
(***************************************************************************)
QUOTE == "\""
BACKSLASH == "\\"
NEWLINE == "\n"
TAB == "\t"

\* Characters outside ASCII are written as the name of their code point.
\* A Python str may hold surrogate code points on their own.
HIGH_SURROGATE == "U+D800"
LOW_SURROGATE == "U+DC00"

(***************************************************************************)
(* Python str operations used by the code.                                 *)
(***************************************************************************)
\* s[i:] for a 0-based Python index i, as SubSeq over 1-based positions.
From(s, i) == SubSeq(s, i, Len(s))

\* m occurs in s at (1-based) position i.
OccursAt(s, m, i) ==
    /\ i >= 1
    /\ i + Len(m) - 1 <= Len(s)
    /\ \A k \in 1..Len(m) : s[i + k - 1] = m[k]

\* str.find(m, start): the least position >= start where m occurs, 0 if none.
Find(s, m, start) ==
    LET hits == {i \in start..(Len(s) - Len(m) + 1) : OccursAt(s, m, i)}
    IN  IF hits = {} THEN 0 ELSE CHOOSE i \in hits : \A j \in hits : i <= j

\* m in s
Contains(s, m) == Find(s, m, 1) # 0

\* str.endswith(m)
EndsWith(s, m) == Len(m) <= Len(s) /\ OccursAt(s, m, Len(s) - Len(m) + 1)

\* str.strip() leaves nothing: the text is empty or whitespace only.
IsBlank(s) == \A i \in 1..Len(s) : s[i] \in {" ", NEWLINE, TAB}

(***************************************************************************)
(* codecs.decode(chunk_text, "unicode_escape") over the characters of the  *)
(* model: \n, \t, \\, \" and \' are decoded, a backslash followed by a     *)
(* newline is dropped, any other escaped character of the model's alphabet *)
(* is kept together with its backslash, and a backslash that ends the text *)
(* raises UnicodeDecodeError.                                              *)
(***************************************************************************)
RECURSIVE unicode_escape(_)
unicode_escape(s) ==
    IF s = <<>> THEN [ok |-> TRUE, val |-> <<>>]
    ELSE IF Head(s) # BACKSLASH
    THEN LET r == unicode_escape(Tail(s))
         IN  [ok |-> r.ok, val |-> <<Head(s)>> \o r.val]
    ELSE IF Len(s) = 1 THEN [ok |-> FALSE, val |-> <<>>]
    ELSE LET c == s[2]
             r == unicode_escape(From(s, 3))
             d == CASE c = "n" -> <<NEWLINE>>
                    [] c = "t" -> <<TAB>>
                    [] c = BACKSLASH -> <<BACKSLASH>>
                    [] c = QUOTE -> <<QUOTE>>
                    [] c = "'" -> <<"'">>
                    [] c = NEWLINE -> <<>>
                    [] OTHER -> <<BACKSLASH, c>>
         IN  [ok |-> r.ok, val |-> d \o r.val]

NO_EXCEPTION == "none"

\* codecs.decode(chunk_text, "unicode_escape") of a str: the text is first
\* encoded as UTF-8, which raises UnicodeEncodeError for a surrogate, and
\* then decoded.
codecs_decode(chunk_text) ==
    IF \E i \in 1..Len(chunk_text) : chunk_text[i] \in {HIGH_SURROGATE, LOW_SURROGATE}
    THEN [raise |-> "UnicodeEncodeError", val |-> <<>>]
    ELSE IF unicode_escape(chunk_text).ok
    THEN [raise |-> NO_EXCEPTION, val |-> unicode_escape(chunk_text).val]
    ELSE [raise |-> "UnicodeDecodeError", val |-> <<>>]

(***************************************************************************)
(* ContentPrinter.  A printer operation maps w = [cp |-> the object's      *)
(* fields, out |-> standard output, raw |-> the texts handed to            *)
(* _print_unescaped_chunk so far, exc |-> the exception that is leaving    *)
(* the operation, if any] to the w after it.                               *)
(***************************************************************************)
\* A start marker for a field named contents.
CONTENTS_START_MARKER_contents ==
    <<QUOTE, "c", "o", "n", "t", "e", "n", "t", "s", QUOTE, ":", " ", QUOTE>>

CONTENTS_START_MARKER ==
    <<QUOTE, "c", "o", "n", "t", "e", "n", "t", QUOTE, ":", " ", QUOTE>>
CONTENTS_END_MARKER == <<QUOTE, ",">>

\* ContentPrinter.__init__
ContentPrinter ==
    [printing_contents |-> FALSE,
     accumulated_chunk |-> <<>>,
     something_printed |-> FALSE]

\* The text _print_unescaped_chunk writes for chunk_text: decoded, or raw
\* when decoding fails.
Unescaped(chunk_text) ==
    LET r == unicode_escape(chunk_text)
    IN  IF r.ok THEN r.val ELSE chunk_text

\* except UnicodeDecodeError
Caught(exception) == exception = "UnicodeDecodeError"

print_unescaped_chunk(w, chunk_text) ==
    LET unescaped == Unescaped(chunk_text)
    IN  IF /\ codecs_decode(chunk_text).raise # NO_EXCEPTION
           /\ ~Caught(codecs_decode(chunk_text).raise)
        THEN [w EXCEPT !.exc = codecs_decode(chunk_text).raise]
        ELSE IF unescaped # <<>>
        THEN [cp |-> [w.cp EXCEPT !.something_printed = TRUE],
              out |-> w.out \o unescaped,
              raw |-> w.raw \o chunk_text,
              exc |-> w.exc]
        ELSE [w EXCEPT !.raw = @ \o chunk_text]

\* The rest of a method after a _print_unescaped_chunk call that led to w1:
\* it runs, giving w2, only if the call returned.
Returned(w1, w2) == IF w1.exc # NO_EXCEPTION THEN w1 ELSE w2

\* A search for a split end marker that never finds one.
PartialEnd_none(acc) == -1

\* The least i in range(len(CONTENTS_END_MARKER)) such that the buffer ends
\* with CONTENTS_END_MARKER[: i + 1], or -1.
PartialEnd(acc) ==
    LET hits == {i \in 0..(Len(CONTENTS_END_MARKER) - 1) :
                    EndsWith(acc, SubSeq(CONTENTS_END_MARKER, 1, i + 1))}
    IN  IF hits = {} THEN -1 ELSE CHOOSE i \in hits : \A j \in hits : i <= j

\* A variant that leaves the end marker it has found in the buffer.
continue_printing_content_keeps_marker(w) ==
    LET acc == w.cp.accumulated_chunk
    IN  IF Contains(acc, CONTENTS_END_MARKER)
        THEN LET end_index == Find(acc, CONTENTS_END_MARKER, 1)
                 w1 == print_unescaped_chunk(w, SubSeq(acc, 1, end_index - 1))
             IN  [w1 EXCEPT !.cp.accumulated_chunk = From(acc, end_index),
                            !.cp.printing_contents = FALSE]
        ELSE LET w1 == print_unescaped_chunk(w, acc)
             IN  [w1 EXCEPT !.cp.accumulated_chunk = <<>>,
                            !.cp.printing_contents = TRUE]

\* A printer that prints what precedes a trailing backslash and keeps nothing.
continue_printing_content_drops_backslash(w) ==
    LET acc == w.cp.accumulated_chunk
        n == Len(acc)
    IN  IF Contains(acc, CONTENTS_END_MARKER)
        THEN LET end_index == Find(acc, CONTENTS_END_MARKER, 1)
                 w1 == print_unescaped_chunk(w, SubSeq(acc, 1, end_index - 1))
                 rest == From(acc, end_index)
             IN  Returned(w1,
                     IF Len(rest) >= Len(CONTENTS_END_MARKER)
                     THEN [w1 EXCEPT
                             !.cp.accumulated_chunk =
                                 From(rest, Len(CONTENTS_END_MARKER) + 1),
                             !.cp.printing_contents = FALSE]
                     ELSE [w1 EXCEPT !.cp.accumulated_chunk = rest])
        ELSE IF PartialEnd(acc) # -1
        THEN LET potential_end_index == n - (PartialEnd(acc) + 1)
                 w1 == print_unescaped_chunk(w, SubSeq(acc, 1, potential_end_index))
             IN  Returned(w1,
                     [w1 EXCEPT !.cp.accumulated_chunk =
                                    From(acc, potential_end_index + 1)])
        ELSE IF EndsWith(acc, <<BACKSLASH>>)
        THEN LET w1 == print_unescaped_chunk(w, SubSeq(acc, 1, n - 1))
             IN  Returned(w1, [w1 EXCEPT !.cp.accumulated_chunk = <<>>])
        ELSE LET w1 == print_unescaped_chunk(w, acc)
             IN  Returned(w1,
                     [w1 EXCEPT !.cp.accumulated_chunk = <<>>,
                                !.cp.printing_contents = TRUE])

continue_printing_content(w) ==
    LET acc == w.cp.accumulated_chunk
        n == Len(acc)
    IN  IF Contains(acc, CONTENTS_END_MARKER)
        THEN LET end_index == Find(acc, CONTENTS_END_MARKER, 1)
                 w1 == print_unescaped_chunk(w, SubSeq(acc, 1, end_index - 1))
                 rest == From(acc, end_index)
             IN  Returned(w1,
                     IF Len(rest) >= Len(CONTENTS_END_MARKER)
                     THEN [w1 EXCEPT
                             !.cp.accumulated_chunk =
                                 From(rest, Len(CONTENTS_END_MARKER) + 1),
                             !.cp.printing_contents = FALSE]
                     ELSE [w1 EXCEPT !.cp.accumulated_chunk = rest])
        ELSE IF PartialEnd(acc) # -1
        THEN LET potential_end_index == n - (PartialEnd(acc) + 1)
                 w1 == print_unescaped_chunk(w, SubSeq(acc, 1, potential_end_index))
             IN  Returned(w1,
                     [w1 EXCEPT !.cp.accumulated_chunk =
                                    From(acc, potential_end_index + 1)])
        ELSE IF EndsWith(acc, <<BACKSLASH>>)
        THEN LET w1 == print_unescaped_chunk(w, SubSeq(acc, 1, n - 1))
             IN  Returned(w1, [w1 EXCEPT !.cp.accumulated_chunk = <<BACKSLASH>>])
        ELSE LET w1 == print_unescaped_chunk(w, acc)
             IN  Returned(w1,
                     [w1 EXCEPT !.cp.accumulated_chunk = <<>>,
                                !.cp.printing_contents = TRUE])

\* A search that keeps no text when it has not found the start marker.
start_printing_content_forgets(w) ==
    LET acc == w.cp.accumulated_chunk
    IN  IF Contains(acc, CONTENTS_START_MARKER)
        THEN LET start_index == Find(acc, CONTENTS_START_MARKER, 1)
                                    + Len(CONTENTS_START_MARKER)
                 w1 == print_unescaped_chunk(w, From(acc, start_index))
             IN  [w1 EXCEPT !.cp.accumulated_chunk = <<>>,
                            !.cp.printing_contents = TRUE]
        ELSE [w EXCEPT !.cp.accumulated_chunk = <<>>]

start_printing_content(w) ==
    LET acc == w.cp.accumulated_chunk
    IN  IF Contains(acc, CONTENTS_START_MARKER)
        THEN LET start_index == Find(acc, CONTENTS_START_MARKER, 1)
                                    + Len(CONTENTS_START_MARKER)
                 end_index == Find(acc, CONTENTS_END_MARKER, start_index)
             IN  IF end_index # 0
                 THEN LET w1 == print_unescaped_chunk(
                                    w, SubSeq(acc, start_index, end_index - 1))
                      IN  Returned(w1,
                              [w1 EXCEPT
                                  !.cp.accumulated_chunk =
                                      From(acc, end_index + Len(CONTENTS_END_MARKER)),
                                  !.cp.printing_contents = FALSE])
                 ELSE LET w1 == print_unescaped_chunk(w, From(acc, start_index))
                      IN  Returned(w1,
                              [w1 EXCEPT !.cp.accumulated_chunk = <<>>,
                                         !.cp.printing_contents = TRUE])
        ELSE w

print_chunk(w, chunk_text) ==
    LET w0 == [w EXCEPT !.cp.accumulated_chunk = @ \o chunk_text]
    IN  IF w0.cp.printing_contents
        THEN continue_printing_content(w0)
        ELSE start_printing_content(w0)

finish(w) ==
    IF w.cp.something_printed
    THEN [w EXCEPT !.out = @ \o <<NEWLINE>>]
    ELSE w

\* Everything a fresh ContentPrinter writes when it is fed the fragments
\* of frags in order.
RECURSIVE Feed(_, _)
Feed(w, frags) ==
    IF frags = <<>> \/ w.exc # NO_EXCEPTION THEN w
    ELSE Feed(print_chunk(w, Head(frags)), Tail(frags))

(***************************************************************************)
(* Python values as json.loads builds them: None, str, int, bool, list and *)
(* dict.  str holds the characters of a string or of a number literal;     *)
(* items holds the elements of a list, or the [key, value] pairs of a dict *)
(* in the order they were read.                                            *)
(***************************************************************************)
PyValue(kind, str, items) == [kind |-> kind, str |-> str, items |-> items]
None == PyValue("null", <<>>, <<>>)
Str(s) == PyValue("string", s, <<>>)

WHITESPACE == {" ", NEWLINE, TAB}
DIGITS == {"0", "1", "2", "3", "4", "5", "6", "7", "8", "9"}

Min(S) == CHOOSE i \in S : \A j \in S : i <= j

\* The first position at or after i that holds no whitespace.
SkipWhitespace(s, i) ==
    Min({j \in i..(Len(s) + 1) : j = Len(s) + 1 \/ s[j] \notin WHITESPACE})

ParseFail == [ok |-> FALSE, val |-> None, next |-> 0]
ParseOk(v, next) == [ok |-> TRUE, val |-> v, next |-> next]

LINEAR_B_SYLLABLE_A == "U+10000"
NON_ASCII == {HIGH_SURROGATE, LOW_SURROGATE, LINEAR_B_SYLLABLE_A}

\* The grave accent cannot be written in a string of this language.
GRAVE == "chr(96)"

\* The characters with code points 32 to 126.
ASCII_PRINTABLE ==
    <<" ", "!", QUOTE, "#", "$", "%", "&", "'", "(", ")",
      "*", "+", ",", "-", ".", "/", "0", "1", "2", "3",
      "4", "5", "6", "7", "8", "9", ":", ";", "<", "=",
      ">", "?", "@", "A", "B", "C", "D", "E", "F", "G",
      "H", "I", "J", "K", "L", "M", "N", "O", "P", "Q",
      "R", "S", "T", "U", "V", "W", "X", "Y", "Z", "[",
      BACKSLASH, "]", "^", "_", GRAVE, "a", "b", "c", "d", "e",
      "f", "g", "h", "i", "j", "k", "l", "m", "n", "o",
      "p", "q", "r", "s", "t", "u", "v", "w", "x", "y",
      "z", "{", "|", "}", "~">>

\* ord() on the characters of the model.
ord(c) ==
    CASE c = TAB -> 9
      [] c = NEWLINE -> 10
      [] c = HIGH_SURROGATE -> 55296
      [] c = LOW_SURROGATE -> 56320
      [] c = LINEAR_B_SYLLABLE_A -> 65536
      [] OTHER -> 31 + (CHOOSE k \in 1..95 : ASCII_PRINTABLE[k] = c)

\* chr(): the character with code point n; a code point outside the model's
\* characters is a character by its number.
chr(n) ==
    CASE n = 9 -> TAB
      [] n = 10 -> NEWLINE
      [] n \in 32..126 -> ASCII_PRINTABLE[n - 31]
      [] n = 55296 -> HIGH_SURROGATE
      [] n = 56320 -> LOW_SURROGATE
      [] n = 65536 -> LINEAR_B_SYLLABLE_A
      [] OTHER -> "chr(" \o ToString(n) \o ")"

HEX_DIGITS == <<"0", "1", "2", "3", "4", "5", "6", "7",
                "8", "9", "a", "b", "c", "d", "e", "f">>
HEX_DIGITS_UPPER == <<"0", "1", "2", "3", "4", "5", "6", "7",
                      "8", "9", "A", "B", "C", "D", "E", "F">>

\* The value of one hexadecimal digit, or -1.
HexDigit(c) ==
    IF \E k \in 1..16 : c \in {HEX_DIGITS[k], HEX_DIGITS_UPPER[k]}
    THEN (CHOOSE k \in 1..16 : c \in {HEX_DIGITS[k], HEX_DIGITS_UPPER[k]}) - 1
    ELSE -1

\* '{0:04x}'.format(n) for n < 0x10000
Hex4(n) ==
    <<HEX_DIGITS[((n \div 4096) % 16) + 1], HEX_DIGITS[((n \div 256) % 16) + 1],
      HEX_DIGITS[((n \div 16) % 16) + 1], HEX_DIGITS[(n % 16) + 1]>>

\* json.decoder._decode_uXXXX: the number written by the four hexadecimal
\* digits after the u at position pos, or -1 where it raises.
decode_uXXXX(s, pos) ==
    IF pos + 4 > Len(s) \/ \E k \in 1..4 : HexDigit(s[pos + k]) = -1 THEN -1
    ELSE 4096 * HexDigit(s[pos + 1]) + 256 * HexDigit(s[pos + 2])
         + 16 * HexDigit(s[pos + 3]) + HexDigit(s[pos + 4])

UnicodeEscapeFail == [ok |-> FALSE, char |-> "", next |-> 0]
UnicodeEscapeOk(n, next) == [ok |-> TRUE, char |-> chr(n), next |-> next]

\* The second half of a \uXXXX escape: uni is a high surrogate and uni2 the
\* number of the \uXXXX escape that follows it at position end.  A low
\* surrogate makes the two escapes one character.
ScanSurrogatePair(uni, uni2, end) ==
    IF uni2 = -1 THEN UnicodeEscapeFail
    ELSE IF 56320 <= uni2 /\ uni2 <= 57343
    THEN UnicodeEscapeOk(65536 + (uni - 55296) * 1024 + (uni2 - 56320), end + 6)
    ELSE UnicodeEscapeOk(uni, end)

\* A \uXXXX escape of number uni that ends before position end.
ScanCodeUnit(s, uni, end) ==
    IF uni = -1 THEN UnicodeEscapeFail
    ELSE IF /\ 55296 <= uni /\ uni <= 56319
            /\ OccursAt(s, <<BACKSLASH, "u">>, end)
    THEN ScanSurrogatePair(uni, decode_uXXXX(s, end + 1), end)
    ELSE UnicodeEscapeOk(uni, end)

\* The \uXXXX escape whose backslash is at position i: the character it
\* stands for and the position after it.
ScanUnicodeEscape(s, i) == ScanCodeUnit(s, decode_uXXXX(s, i + 1), i + 6)

\* json.decoder.py_scanstring (strict): the string whose opening quote is
\* before position i; acc is the text decoded so far.
RECURSIVE scanstring(_, _, _)
scanstring(s, i, acc) ==
    IF i > Len(s) THEN ParseFail
    ELSE IF s[i] = QUOTE THEN ParseOk(Str(acc), i + 1)
    ELSE IF s[i] \in {NEWLINE, TAB} THEN ParseFail
    ELSE IF s[i] # BACKSLASH THEN scanstring(s, i + 1, Append(acc, s[i]))
    ELSE IF i + 1 > Len(s) THEN ParseFail
    ELSE LET c == s[i + 1]
         IN  CASE c = QUOTE -> scanstring(s, i + 2, Append(acc, QUOTE))
               [] c = BACKSLASH -> scanstring(s, i + 2, Append(acc, BACKSLASH))
               [] c = "/" -> scanstring(s, i + 2, Append(acc, "/"))
               [] c = "n" -> scanstring(s, i + 2, Append(acc, NEWLINE))
               [] c = "t" -> scanstring(s, i + 2, Append(acc, TAB))
               [] c = "u" /\ ScanUnicodeEscape(s, i).ok ->
                    scanstring(s, ScanUnicodeEscape(s, i).next,
                               Append(acc, ScanUnicodeEscape(s, i).char))
               [] OTHER -> ParseFail

\* The end of the integer literal -?(0|[1-9][0-9]*) that starts at i, or 0.
NumberEnd(s, i) ==
    LET d == IF i <= Len(s) /\ s[i] = "-" THEN i + 1 ELSE i
    IN  IF d > Len(s) \/ s[d] \notin DIGITS THEN 0
        ELSE IF s[d] = "0" THEN d + 1
        ELSE Min({j \in (d + 1)..(Len(s) + 1) :
                     j = Len(s) + 1 \/ s[j] \notin DIGITS})

\* json.scanner.py_make_scanner._scan_once with json.decoder.JSONObject and
\* JSONArray: the value that starts at position i.
RECURSIVE scan_once(_, _)
RECURSIVE JSONObject(_, _, _)
RECURSIVE JSONObjectValue(_, _, _)
RECURSIVE JSONObjectNext(_, _, _, _)
RECURSIVE JSONArray(_, _, _)
RECURSIVE JSONArrayNext(_, _, _)

scan_once(s, i) ==
    IF i > Len(s) THEN ParseFail
    ELSE CASE s[i] = QUOTE -> scanstring(s, i + 1, <<>>)
           [] s[i] = "{" ->
                LET j == SkipWhitespace(s, i + 1)
                IN  IF j <= Len(s) /\ s[j] = "}"
                    THEN ParseOk(PyValue("object", <<>>, <<>>), j + 1)
                    ELSE JSONObject(s, j, <<>>)
           [] s[i] = "[" ->
                LET j == SkipWhitespace(s, i + 1)
                IN  IF j <= Len(s) /\ s[j] = "]"
                    THEN ParseOk(PyValue("array", <<>>, <<>>), j + 1)
                    ELSE JSONArray(s, j, <<>>)
           [] OccursAt(s, <<"n", "u", "l", "l">>, i) -> ParseOk(None, i + 4)
           [] OccursAt(s, <<"t", "r", "u", "e">>, i) ->
                ParseOk(PyValue("true", <<>>, <<>>), i + 4)
           [] OccursAt(s, <<"f", "a", "l", "s", "e">>, i) ->
                ParseOk(PyValue("false", <<>>, <<>>), i + 5)
           [] NumberEnd(s, i) # 0 ->
                ParseOk(PyValue("number", SubSeq(s, i, NumberEnd(s, i) - 1), <<>>),
                        NumberEnd(s, i))
           [] OTHER -> ParseFail

\* The members of an object from position i, which must hold the quote of
\* a key; pairs are the members read so far.
JSONObject(s, i, pairs) ==
    IF i > Len(s) \/ s[i] # QUOTE THEN ParseFail
    ELSE JSONObjectValue(s, scanstring(s, i + 1, <<>>), pairs)

\* The colon and the value after the key that was read.
JSONObjectValue(s, key, pairs) ==
    IF ~key.ok THEN ParseFail
    ELSE IF \/ SkipWhitespace(s, key.next) > Len(s)
            \/ s[SkipWhitespace(s, key.next)] # ":"
    THEN ParseFail
    ELSE JSONObjectNext(s, key.val.str,
             scan_once(s, SkipWhitespace(s, SkipWhitespace(s, key.next) + 1)),
             pairs)

\* The comma or the closing brace after the member key: v that was read.
JSONObjectNext(s, key, v, pairs) ==
    IF ~v.ok \/ SkipWhitespace(s, v.next) > Len(s) THEN ParseFail
    ELSE IF s[SkipWhitespace(s, v.next)] = "}"
    THEN ParseOk(PyValue("object", <<>>,
                         Append(pairs, [key |-> key, value |-> v.val])),
                 SkipWhitespace(s, v.next) + 1)
    ELSE IF s[SkipWhitespace(s, v.next)] = ","
    THEN JSONObject(s, SkipWhitespace(s, SkipWhitespace(s, v.next) + 1),
                    Append(pairs, [key |-> key, value |-> v.val]))
    ELSE ParseFail

\* The elements of an array from position i; values are those read so far.
JSONArray(s, i, values) == JSONArrayNext(s, scan_once(s, i), values)

\* The comma or the closing bracket after the element v that was read.
JSONArrayNext(s, v, values) ==
    IF ~v.ok \/ SkipWhitespace(s, v.next) > Len(s) THEN ParseFail
    ELSE IF s[SkipWhitespace(s, v.next)] = "]"
    THEN ParseOk(PyValue("array", <<>>, Append(values, v.val)),
                 SkipWhitespace(s, v.next) + 1)
    ELSE IF s[SkipWhitespace(s, v.next)] = ","
    THEN JSONArray(s, SkipWhitespace(s, SkipWhitespace(s, v.next) + 1),
                   Append(values, v.val))
    ELSE ParseFail

\* The value v read from the start of s, if only whitespace follows it.
JSONDecoder_decode(s, v) ==
    IF v.ok /\ SkipWhitespace(s, v.next) = Len(s) + 1 THEN v ELSE ParseFail

\* json.loads: one value with whitespace around it and nothing after it;
\* ok is FALSE where json.loads raises JSONDecodeError.
json_loads(s) == JSONDecoder_decode(s, scan_once(s, SkipWhitespace(s, 1)))

\* The \uXXXX escapes of code point n: one for a code point below 0x10000,
\* a surrogate pair for one above.
EscapeCodePoint(n) ==
    IF n < 65536 THEN <<BACKSLASH, "u">> \o Hex4(n)
    ELSE <<BACKSLASH, "u">> \o Hex4(55296 + (((n - 65536) \div 1024) % 1024))
         \o <<BACKSLASH, "u">> \o Hex4(56320 + ((n - 65536) % 1024))

EscapeNonAscii(c) == EscapeCodePoint(ord(c))

\* A serializer that leaves the backslash unescaped.
RECURSIVE encode_body_keeps_backslash(_)
encode_body_keeps_backslash(s) ==
    IF s = <<>> THEN <<>>
    ELSE LET c == Head(s)
             e == CASE c = QUOTE -> <<BACKSLASH, QUOTE>>
                    [] c = NEWLINE -> <<BACKSLASH, "n">>
                    [] c = TAB -> <<BACKSLASH, "t">>
                    [] c \in NON_ASCII -> EscapeNonAscii(c)
                    [] OTHER -> <<c>>
         IN  e \o encode_body_keeps_backslash(Tail(s))

\* json.encoder.py_encode_basestring_ascii
RECURSIVE encode_basestring_ascii_body(_)
encode_basestring_ascii_body(s) ==
    IF s = <<>> THEN <<>>
    ELSE LET c == Head(s)
             e == CASE c = QUOTE -> <<BACKSLASH, QUOTE>>
                    [] c = BACKSLASH -> <<BACKSLASH, BACKSLASH>>
                    [] c = NEWLINE -> <<BACKSLASH, "n">>
                    [] c = TAB -> <<BACKSLASH, "t">>
                    [] c \in NON_ASCII -> EscapeNonAscii(c)
                    [] OTHER -> <<c>>
         IN  e \o encode_basestring_ascii_body(Tail(s))

encode_basestring_ascii(s) == <<QUOTE>> \o encode_basestring_ascii_body(s) \o <<QUOTE>>

\* json.dumps of a value that is None or a str.
json_dumps_value(v) ==
    IF v.kind = "string" THEN encode_basestring_ascii(v.str)
    ELSE <<"n", "u", "l", "l">>

Key(name) == <<QUOTE>> \o name \o <<QUOTE, ":", " ">>
KEY_CONTENT == <<"c", "o", "n", "t", "e", "n", "t">>
KEY_COMMAND == <<"c", "o", "m", "m", "a", "n", "d">>
KEY_ERROR == <<"e", "r", "r", "o", "r">>

(***************************************************************************)
(* Response (calais/response.py).                                          *)
(***************************************************************************)
Response(content, command, error) ==
    [content |-> content, command |-> command, error |-> error]

\* Response.to_json: json.dumps(asdict(self))
to_json(r) ==
    <<"{">> \o Key(KEY_CONTENT) \o json_dumps_value(r.content) \o <<",", " ">>
            \o Key(KEY_COMMAND) \o json_dumps_value(r.command) \o <<",", " ">>
            \o Key(KEY_ERROR) \o json_dumps_value(r.error) \o <<"}">>

\* dict.get(key): the value of the last member with that key, or None.
dict_get(data, key) ==
    LET hits == {i \in 1..Len(data.items) : data.items[i].key = key}
    IN  IF hits = {} THEN None
        ELSE data.items[CHOOSE i \in hits : \A j \in hits : j <= i].value

\* Lines 26-32 of Response.from_json on the outcome of json.loads.
from_json_data(data) ==
    IF ~data.ok THEN [kind |-> "ValueError", value |-> Response(None, None, None)]
    ELSE IF data.val.kind # "object"
    THEN [kind |-> "AttributeError", value |-> Response(None, None, None)]
    ELSE [kind |-> "Response",
          value |-> Response(dict_get(data.val, KEY_CONTENT),
                             dict_get(data.val, KEY_COMMAND),
                             dict_get(data.val, KEY_ERROR))]

\* Response.from_json: a Response, or ValueError for text that is no JSON,
\* or the AttributeError of data.get on a value that is no dict.
from_json(str) == from_json_data(json_loads(str))

(***************************************************************************)
(* Values the variables of a component hold while it is not running.       *)
(***************************************************************************)
NoResponse == Response(None, None, None)

PrinterIdle ==
    /\ content_printer = ContentPrinter
    /\ stdout = <<>>
    /\ printed_raw = <<>>
    /\ last_call = "__init__"
    /\ finish_calls = 0
    /\ printer_exception = NO_EXCEPTION

DriverIdle ==
    /\ logical_text = <<>>
    /\ fed = 0
    /\ was_printing = FALSE

ResponseIdle ==
    /\ resp = NoResponse
    /\ json_str = <<>>
    /\ decoded = [kind |-> "none", value |-> NoResponse]
    /\ rpc = "idle"

NoBehaviour == [call |-> "none", stream |-> <<>>]
NoException == [kind |-> "none", message |-> ""]
NoOutcome == [kind |-> "none", message |-> "", value |-> NoResponse]

\* The locals of _call_gpt_api and of the executor before an attempt.
AttemptIdle ==
    /\ worker = "none"
    /\ behaviour = NoBehaviour
    /\ response = <<>>
    /\ text = <<>>
    /\ empty_chunk_count = 0
    /\ pending = NoException
    /\ chunks_read = 0

ChatIdle ==
    /\ pc = "idle"
    /\ max_retries = 0
    /\ max_empty_chunks = 0
    /\ print_chunks = FALSE
    /\ conversation = <<>>
    /\ retries = 0
    /\ AttemptIdle
    /\ outcome = NoOutcome
    /\ api_calls = 0
    /\ attempts = 0
    /\ sleeps = 0
    /\ all_undecodable = TRUE

\* No input has been read.
NoInput == "None"

CommandIdle ==
    /\ cmd_pc = "idle"
    /\ response_command = <<>>
    /\ command_local = <<>>
    /\ sub_rest = <<>>
    /\ placeholder_inputs = <<>>
    /\ user_input = NoInput
    /\ executed = <<>>
    /\ user_prompt = <<>>
    /\ prompt_read = TRUE

(***************************************************************************)
(* A lone ContentPrinter fed a logical text in fragments of any sizes      *)
(* (tests/test_content_printer.py, TestPrintChunkWithSplitMarkers).        *)
(***************************************************************************)
SeqsUpTo(S, n) == UNION {[1..k -> S] : k \in 0..n}

PayloadChars == {"A", QUOTE, ",", BACKSLASH, "n"}
Payloads == SeqsUpTo(PayloadChars, MaxPayload)
Prefixes == {<<"{">>}
Suffixes == {<<>>, <<" ", "}">>}

\* The envelope texts: a prefix, the start marker, a field value, the end
\* marker and a suffix.
LogicalTexts ==
    {pre \o CONTENTS_START_MARKER \o p \o CONTENTS_END_MARKER \o suf :
        pre \in Prefixes, p \in Payloads, suf \in Suffixes}

\* The printer and the output stream as the printer operations take them.
World ==
    [cp |-> content_printer, out |-> stdout, raw |-> printed_raw,
     exc |-> printer_exception]

\* A fresh printer that has written nothing.
FreshWorld == [cp |-> ContentPrinter, out |-> <<>>, raw |-> <<>>, exc |-> NO_EXCEPTION]

InitPrinter ==
    /\ PrinterIdle
    /\ logical_text \in LogicalTexts
    /\ fed = 0
    /\ was_printing = FALSE
    /\ ResponseIdle
    /\ ChatIdle
    /\ CommandIdle

\* content_printer.print_chunk(fragment) for the next fragment of the
\* logical text, of any length.
PrintChunk ==
    /\ finish_calls = 0
    /\ printer_exception = NO_EXCEPTION
    /\ \E k \in 0..(Len(logical_text) - fed) :
          LET w == print_chunk(World, SubSeq(logical_text, fed + 1, fed + k))
          IN  /\ content_printer' = w.cp
              /\ stdout' = w.out
              /\ printed_raw' = w.raw
              /\ printer_exception' = w.exc
              /\ fed' = fed + k
              /\ was_printing' = (was_printing \/ w.cp.printing_contents)
    /\ last_call' = "print_chunk"
    /\ UNCHANGED <<finish_calls, logical_text>>
    /\ UNCHANGED <<response_vars, chat_vars, command_vars>>

\* content_printer.finish()
Finish ==
    /\ finish_calls < MaxFinishCalls
    /\ printer_exception = NO_EXCEPTION
    /\ LET w == finish(World)
       IN  /\ content_printer' = w.cp
           /\ stdout' = w.out
           /\ printed_raw' = w.raw
    /\ UNCHANGED printer_exception
    /\ finish_calls' = finish_calls + 1
    /\ last_call' = "finish"
    /\ UNCHANGED driver_vars
    /\ UNCHANGED <<response_vars, chat_vars, command_vars>>

NextPrinter == PrintChunk \/ Finish

SpecPrinter == InitPrinter /\ [][NextPrinter]_vars

\* The same printer fed texts whose field values hold a surrogate code point
\* (json.loads gives one for the escape \ud800 of a fragment's content).
SurrogatePayloadChars == {"A", BACKSLASH, HIGH_SURROGATE}
SurrogateTexts ==
    {pre \o CONTENTS_START_MARKER \o p \o CONTENTS_END_MARKER \o suf :
        pre \in Prefixes, p \in SeqsUpTo(SurrogatePayloadChars, MaxPayload),
        suf \in Suffixes}

InitPrinterSurrogates ==
    /\ PrinterIdle
    /\ logical_text \in SurrogateTexts
    /\ fed = 0
    /\ was_printing = FALSE
    /\ ResponseIdle
    /\ ChatIdle
    /\ CommandIdle

SpecPrinterSurrogates == InitPrinterSurrogates /\ [][NextPrinter]_vars

\* The same printer fed envelopes in which text follows the first field: a
\* second field with the key of the start marker (json.loads accepts a
\* repeated key), or the command and error fields.
FirstValues == {<<"A">>, <<"A", "A">>}
LaterFields ==
    {CONTENTS_START_MARKER \o <<"B">> \o CONTENTS_END_MARKER \o <<" ", "}">>,
     CONTENTS_START_MARKER \o <<"B", QUOTE, "}">>,
     <<QUOTE, "e", QUOTE, ":", " ", "0", "}">>}
TwoFieldTexts ==
    {pre \o CONTENTS_START_MARKER \o p \o CONTENTS_END_MARKER \o <<" ">> \o later :
        pre \in Prefixes, p \in FirstValues, later \in LaterFields}

InitPrinterTwoFields ==
    /\ PrinterIdle
    /\ logical_text \in TwoFieldTexts
    /\ fed = 0
    /\ was_printing = FALSE
    /\ ResponseIdle
    /\ ChatIdle
    /\ CommandIdle

SpecPrinterTwoFields == InitPrinterTwoFields /\ [][NextPrinter]_vars

(***************************************************************************)
(* Properties of the lone ContentPrinter.                                  *)
(***************************************************************************)
IsPrefix(a, b) == Len(a) <= Len(b) /\ SubSeq(b, 1, Len(a)) = a

\* The text strictly between the first start marker of t and the first end
\* marker after it (t holds both).
FieldValue(t) ==
    LET start_index == Find(t, CONTENTS_START_MARKER, 1) + Len(CONTENTS_START_MARKER)
        end_index == Find(t, CONTENTS_END_MARKER, start_index)
    IN  SubSeq(t, start_index, end_index - 1)

AllFed == fed = Len(logical_text) /\ finish_calls = 0

\* C1 (as claimed): fragmentation invariance.  Once the whole logical text
\* has been fed, in whatever fragments, the printer has written exactly the
\* unescaped field value, which is what feeding the text as one fragment
\* writes.
C1_FragmentationInvariance ==
    AllFed =>
        /\ stdout = Unescaped(FieldValue(logical_text))
        /\ stdout = Feed(FreshWorld, <<logical_text>>).out

\* C5 (as claimed): idempotent finish.  A finish() call writes one newline
\* when something was printed and this is the first finish() in a row, and
\* writes nothing when nothing was printed or when the call before it was a
\* finish() too.
C5_IdempotentFinish ==
    [][finish_calls' = finish_calls + 1 =>
          stdout' = IF content_printer.something_printed /\ last_call # "finish"
                    THEN stdout \o <<NEWLINE>>
                    ELSE stdout]_vars

\* C10 (as claimed): the printer emits only the field value.  The text it
\* has handed to printing is always a prefix of the text strictly between
\* the start marker and the first end marker after it.
C10_OnlyFieldBytes == IsPrefix(printed_raw, FieldValue(logical_text))

(***************************************************************************)
(* A Response serialized and decoded again (tests/test_response.py).       *)
(***************************************************************************)
FieldChars == {"n", QUOTE, BACKSLASH, NEWLINE, HIGH_SURROGATE, LOW_SURROGATE}
CommandChars == {BACKSLASH, HIGH_SURROGATE, LOW_SURROGATE}
ErrorChars == {QUOTE, NEWLINE}

\* None or a string of at most n characters of chars.
OptionalStr(chars, n) == {None} \cup {Str(x) : x \in SeqsUpTo(chars, n)}

InitResponse ==
    /\ resp \in {Response(a, b, c) : a \in OptionalStr(FieldChars, MaxFieldLen),
                                     b \in OptionalStr(CommandChars, MaxOtherLen),
                                     c \in OptionalStr(ErrorChars, MaxOtherLen)}
    /\ json_str = <<>>
    /\ decoded = [kind |-> "none", value |-> NoResponse]
    /\ rpc = "made"
    /\ PrinterIdle
    /\ DriverIdle
    /\ ChatIdle
    /\ CommandIdle

\* json_str = resp.to_json()
ToJson ==
    /\ rpc = "made"
    /\ json_str' = to_json(resp)
    /\ rpc' = "serialized"
    /\ UNCHANGED <<resp, decoded>>
    /\ UNCHANGED <<printer_vars, driver_vars, chat_vars, command_vars>>

\* decoded = Response.from_json(json_str)
FromJson ==
    /\ rpc = "serialized"
    /\ decoded' = from_json(json_str)
    /\ rpc' = "decoded"
    /\ UNCHANGED <<resp, json_str>>
    /\ UNCHANGED <<printer_vars, driver_vars, chat_vars, command_vars>>

NextResponse == ToJson \/ FromJson

SpecResponse == InitResponse /\ [][NextResponse]_vars

\* C9 (as claimed): round trip.  Decoding the serialized form of a Response
\* whose fields are each None or an arbitrary string gives a Response equal
\* to it.
C9_RoundTrip_Claimed ==
    rpc = "decoded" => decoded = [kind |-> "Response", value |-> resp]

\* A high surrogate directly followed by a low surrogate somewhere in v.
HasSurrogatePair(v) ==
    \E k \in 1..(Len(v.str) - 1) :
        v.str[k] = HIGH_SURROGATE /\ v.str[k + 1] = LOW_SURROGATE

\* C9: round trip.  Decoding the serialized form of a Response whose fields
\* are each None or a string in which no high surrogate is directly followed
\* by a low surrogate gives a Response equal to it.
C9_RoundTrip ==
    (/\ rpc = "decoded"
     /\ ~HasSurrogatePair(resp.content)
     /\ ~HasSurrogatePair(resp.command)
     /\ ~HasSurrogatePair(resp.error))
        => decoded = [kind |-> "Response", value |-> resp]

\* A decoded Response that mixes None with strings that need escaping,
\* surrogates on their own among them.
C9_Witness ==
    /\ rpc = "decoded"
    /\ resp.content = Str(<<LOW_SURROGATE, HIGH_SURROGATE>>)
    /\ resp.command = None
    /\ resp.error = Str(<<QUOTE>>)
    /\ decoded.kind = "Response"

(***************************************************************************)
(* Chat (calais/chat.py): one turn, call_gpt4 -> _generate_response ->     *)
(* _call_gpt_api, against a client that behaves in one of ClientBehaviours *)
(* in each attempt.                                                        *)
(***************************************************************************)
\* The marker constants of chat.py, which no code uses.
chat_CONTENTS_START_MARKER ==
    <<QUOTE, "c", "o", "n", "t", "e", "n", "t", "s", QUOTE, ":", " ", QUOTE>>
chat_CONTENTS_END_MARKER == <<QUOTE, ",", NEWLINE>>

Exception(kind, message) == [kind |-> kind, message |-> message]
ChatError(message) == Exception("ChatError", message)

\* The exception classes the except clause of _generate_response catches:
\* openai.OpenAIError with its subclasses, and concurrent.futures.TimeoutError.
OPENAI_ERRORS == {"APIConnectionError", "AuthenticationError"}
\* An except clause that catches ChatError too.
IsRetryable_with_ChatError(e) ==
    e.kind \in OPENAI_ERRORS \cup {"TimeoutError", "ChatError"}

\* An except clause that names concurrent.futures.TimeoutError only.
IsRetryable_only_timeout(e) == e.kind = "TimeoutError"

IsRetryable(e) == e.kind \in OPENAI_ERRORS \cup {"TimeoutError"}

\* Elements of the stream the client returns.
Chunk(content, finish_reason) ==
    [kind |-> "ChatCompletionChunk", content |-> content, finish_reason |-> finish_reason]
NotAChunk(kind) == [kind |-> kind, content |-> None, finish_reason |-> "None"]
\* Reading this element raises an OpenAIError out of the iteration.
StreamError == [kind |-> "raise", content |-> None, finish_reason |-> "None"]

NULL == <<"n", "u", "l", "l">>
TXT_OPEN == <<"{">> \o Key(KEY_CONTENT) \o <<QUOTE, "A">>
TXT_CLOSE ==
    <<"B", QUOTE, ",", " ">> \o Key(KEY_COMMAND) \o NULL \o <<",", " ">>
        \o Key(KEY_ERROR) \o NULL \o <<"}">>
TXT_ERROR == <<"{">> \o Key(KEY_ERROR) \o <<QUOTE, "e", QUOTE, "}">>
TXT_ARRAY == <<"[", "]">>
TXT_OBJECT == <<"{", "}">>

\* N blank fragments followed by a stop fragment.
BlankContents == {None, Str(<<" ", NEWLINE>>)}
StopContents == {None, Str(TXT_OBJECT)}
BlanksThenStop ==
    {[i \in 1..n |-> Chunk(b, "None")] \o <<Chunk(c, "stop")>> :
        n \in 0..MaxBlankChunks, b \in BlankContents, c \in StopContents}

OtherStreams ==
    { <<Chunk(Str(TXT_OPEN), "None"), Chunk(Str(TXT_CLOSE), "stop")>>,
      <<Chunk(Str(TXT_OPEN), "None"), Chunk(Str(TXT_CLOSE), "stop"),
        Chunk(Str(<<"x">>), "None")>>,
      <<Chunk(Str(TXT_OPEN \o TXT_CLOSE), "None")>>,
      <<Chunk(Str(TXT_OPEN), "None"), Chunk(Str(<<"B">>), "stop")>>,
      <<Chunk(Str(TXT_ARRAY), "stop")>>,
      <<Chunk(Str(TXT_ERROR), "stop")>>,
      <<Chunk(Str(TXT_OPEN), "None"), Chunk(Str(<<"B">>), "length"),
        Chunk(Str(<<"x">>), "None")>>,
      <<Chunk(Str(TXT_OPEN), "None"), Chunk(Str(<<"B">>), "content_filter")>>,
      <<Chunk(Str(TXT_OPEN), "None"), NotAChunk("tuple")>>,
      <<NotAChunk("list")>>,
      <<Chunk(Str(TXT_OPEN), "None"), StreamError>> }

\* What client.call_api does in one attempt: it returns a stream, raises,
\* or does not return.
ClientBehaviours ==
    {[call |-> "stream", stream |-> st] : st \in BlanksThenStop \cup OtherStreams}
    \cup {[call |-> c, stream |-> <<>>] :
             c \in {"APIConnectionError", "AuthenticationError", "hang"}}

USER_PROMPT == <<"p">>

\* An append that puts the message in twice.
add_to_conversation_twice(conv, role, content) ==
    conv \o <<[role |-> role, content |-> content], [role |-> role, content |-> content]>>

\* Chat.add_to_conversation
add_to_conversation(conv, role, content) ==
    Append(conv, [role |-> role, content |-> content])

MAX_TOKENS_MESSAGE == "stopped because max_tokens reached"
UNEXPECTED_REASON_MESSAGE == "unexpected completion reason"

\* f"unexpected completion reason: {reason}"
UnexpectedReason(reason) == UNEXPECTED_REASON_MESSAGE \o ": " \o reason

\* A check that lets every element of the stream through.
check_returned_chunk_lenient(chunk) == NoException

\* Chat._check_returned_chunk: the exception it raises, if any.
check_returned_chunk(chunk) ==
    IF chunk.kind = "ChatCompletionChunk" THEN NoException
    ELSE IF chunk.kind = "tuple"
    THEN ChatError("Received a tuple instead of a ChatCompletionChunk")
    ELSE ChatError("Received an unexpected chunk type")

\* A variant that takes a finish reason of length for the end of the stream.
process_response_chunk_length_stops(chunk) ==
    LET content == IF chunk.content = None THEN <<>> ELSE chunk.content.str
        reason == chunk.finish_reason
    IN  CASE reason \in {"stop", "length"} ->
                [raise |-> NoException, text |-> content, stop |-> TRUE]
          [] reason = "None" -> [raise |-> NoException, text |-> content, stop |-> FALSE]
          [] OTHER -> [raise |-> ChatError(UnexpectedReason(reason)),
                       text |-> <<>>, stop |-> FALSE]

\* A variant that reads on after a finish reason of stop.
process_response_chunk_stop_continues(chunk) ==
    LET content == IF chunk.content = None THEN <<>> ELSE chunk.content.str
        reason == chunk.finish_reason
    IN  CASE reason = "length" ->
                [raise |-> ChatError(MAX_TOKENS_MESSAGE),
                 text |-> <<>>, stop |-> FALSE]
          [] reason \in {"stop", "None"} ->
                [raise |-> NoException, text |-> content, stop |-> FALSE]
          [] OTHER -> [raise |-> ChatError(UnexpectedReason(reason)),
                       text |-> <<>>, stop |-> FALSE]

\* Chat._process_response_chunk: the exception it raises, or the chunk's
\* text and the stop flag.
process_response_chunk(chunk) ==
    LET content == IF chunk.content = None THEN <<>> ELSE chunk.content.str
        reason == chunk.finish_reason
    IN  CASE reason = "length" ->
                [raise |-> ChatError(MAX_TOKENS_MESSAGE),
                 text |-> <<>>, stop |-> FALSE]
          [] reason = "stop" -> [raise |-> NoException, text |-> content, stop |-> TRUE]
          [] reason = "None" -> [raise |-> NoException, text |-> content, stop |-> FALSE]
          [] OTHER -> [raise |-> ChatError(UnexpectedReason(reason)),
                       text |-> <<>>, stop |-> FALSE]

\* A loop test that leaves out the last attempt.
RetryBudgetLeft_strict == retries < max_retries

\* while retries <= self.max_retries
RetryBudgetLeft == retries <= max_retries

\* A test that takes a text for empty only if it holds whitespace.
CountsAsEmpty_whitespace_only(chunk_text) == chunk_text # <<>> /\ IsBlank(chunk_text)

\* A test that counts only the empty string.
CountsAsEmpty_only_empty(chunk_text) == chunk_text = <<>>

\* if not chunk_text.strip()
CountsAsEmpty(chunk_text) == IsBlank(chunk_text)
\* A test that lets well-formed text through whatever the count is.
TooManyEmpty_unless_json ==
    empty_chunk_count > max_empty_chunks /\ ~json_loads(text).ok

\* if empty_chunk_count > self.max_empty_chunks
TooManyEmpty == empty_chunk_count > max_empty_chunks

TOO_MANY_EMPTY_NOTICE == "Received too many empty chunks. Retrying..."
ERROR_NOTICE == "Error occurred. Retrying..."
INVALID_JSON_MESSAGE == "Invalid JSON string"

\* f"Error occurred. Retrying... ({e})"
ErrorNotice(message) == ERROR_NOTICE \o " (" \o message \o ")"
FAILED_MESSAGE == "Failed to receive a response from OpenAI."

\* A retry handler that prints its notice and does not sleep.
HandleRetry_no_sleep(message) ==
    /\ stdout' = stdout \o <<message, NEWLINE>>
    /\ sleeps' = sleeps
    /\ retries' = retries + 1
    /\ pc' = "loop"

\* Chat._handle_retry(message), followed by retries += 1 and the jump to
\* the loop test.
HandleRetry(message) ==
    /\ stdout' = stdout \o <<message, NEWLINE>>
    /\ sleeps' = sleeps + 1
    /\ retries' = retries + 1
    /\ pc' = "loop"

Init ==
    /\ pc = "idle"
    /\ max_retries \in 0..MaxRetriesBound
    /\ max_empty_chunks \in 0..MaxEmptyBound
    /\ print_chunks \in BOOLEAN
    /\ conversation = <<[role |-> "system", content |-> <<"s">>]>>
    /\ retries = 0
    /\ AttemptIdle
    /\ outcome = NoOutcome
    /\ api_calls = 0
    /\ attempts = 0
    /\ sleeps = 0
    /\ all_undecodable = TRUE
    /\ content_printer = ContentPrinter
    /\ stdout = <<>>
    /\ printed_raw = <<>>
    /\ last_call = "none"
    /\ finish_calls = 0
    /\ printer_exception = NO_EXCEPTION
    /\ DriverIdle
    /\ ResponseIdle
    /\ CommandIdle

\* Chat.call_gpt4 up to the first loop test of _generate_response.
CallGpt4 ==
    /\ pc = "idle"
    /\ conversation' = add_to_conversation(conversation, "user", USER_PROMPT)
    /\ retries' = 0
    /\ pc' = "loop"
    /\ UNCHANGED <<max_retries, max_empty_chunks, print_chunks, worker, behaviour,
                   response, text, empty_chunk_count, pending, outcome, api_calls,
                   attempts, sleeps, chunks_read, all_undecodable>>
    /\ UNCHANGED <<printer_vars, driver_vars, response_vars, command_vars>>

\* An accumulator that is an attribute of the Chat rather than a local.
NewText_kept == text

\* text: str = "", a local of _call_gpt_api
NewText == <<>>

\* The loop test succeeds: _call_gpt_api is entered and the executor's
\* worker starts client.call_api.
SubmitFrom(behaviours) ==
    /\ pc = "loop"
    /\ RetryBudgetLeft
    /\ behaviour' \in behaviours
    /\ worker' = "running"
    /\ attempts' = attempts + 1
    /\ api_calls' = api_calls + 1
    /\ response' = <<>>
    /\ text' = NewText
    /\ empty_chunk_count' = 0
    /\ chunks_read' = 0
    /\ pending' = NoException
    /\ last_call' = "none"
    /\ finish_calls' = 0
    /\ content_printer' = ContentPrinter
    /\ printer_exception' = NO_EXCEPTION
    /\ pc' = "await"
    /\ UNCHANGED <<max_retries, max_empty_chunks, print_chunks, conversation,
                   retries, outcome, sleeps, all_undecodable, stdout, printed_raw>>
    /\ UNCHANGED <<driver_vars, response_vars, command_vars>>

Submit == SubmitFrom(ClientBehaviours)

\* The loop test fails: raise ChatError("Failed to receive a response ...").
GiveUp ==
    /\ pc = "loop"
    /\ ~RetryBudgetLeft
    /\ outcome' = [kind |-> "ChatError", message |-> FAILED_MESSAGE, value |-> NoResponse]
    /\ pc' = "raised"
    /\ UNCHANGED <<max_retries, max_empty_chunks, print_chunks, conversation,
                   retries, worker, behaviour, response, text, empty_chunk_count,
                   pending, api_calls, attempts, sleeps, chunks_read, all_undecodable>>
    /\ UNCHANGED <<printer_vars, driver_vars, response_vars, command_vars>>

\* The worker's client.call_api returns or raises.
WorkerFinishes ==
    /\ worker = "running"
    /\ behaviour.call # "hang"
    /\ worker' = IF behaviour.call = "stream" THEN "returned" ELSE "raised"
    /\ UNCHANGED <<pc, max_retries, max_empty_chunks, print_chunks, conversation,
                   retries, behaviour, response, text, empty_chunk_count, pending,
                   outcome, api_calls, attempts, sleeps, chunks_read, all_undecodable>>
    /\ UNCHANGED <<printer_vars, driver_vars, response_vars, command_vars>>

\* future.result(timeout=self.timeout) hands over what the worker produced.
FutureResult ==
    /\ pc = "await"
    /\ worker \in {"returned", "raised"}
    /\ IF worker = "returned"
       THEN /\ response' = behaviour.stream
            /\ pending' = NoException
       ELSE /\ response' = <<>>
            /\ pending' = Exception(behaviour.call, behaviour.call)
    /\ pc' = "shutdown"
    /\ UNCHANGED <<max_retries, max_empty_chunks, print_chunks, conversation,
                   retries, worker, behaviour, text, empty_chunk_count,
                   outcome, api_calls, attempts, sleeps, chunks_read, all_undecodable>>
    /\ UNCHANGED <<printer_vars, driver_vars, response_vars, command_vars>>

\* future.result(timeout=self.timeout) raises TimeoutError while the worker
\* is still running.
FutureTimeout ==
    /\ pc = "await"
    /\ worker = "running"
    /\ pending' = Exception("TimeoutError", "")
    /\ pc' = "shutdown"
    /\ UNCHANGED <<max_retries, max_empty_chunks, print_chunks, conversation,
                   retries, worker, behaviour, response, text, empty_chunk_count,
                   outcome, api_calls, attempts, sleeps, chunks_read, all_undecodable>>
    /\ UNCHANGED <<printer_vars, driver_vars, response_vars, command_vars>>

\* An executor whose shutdown does not wait for its worker.
WorkerDone_nowait == TRUE

\* ThreadPoolExecutor.__exit__ is shutdown(wait=True): it returns once the
\* worker has returned or raised.
WorkerDone == worker # "running"

\* The with block is left: ThreadPoolExecutor.__exit__ waits for the worker.
\* Then either the exception goes on to _generate_response, or the
\* ContentPrinter and the locals of the read loop are made.
ExecutorShutdown ==
    /\ pc = "shutdown"
    /\ WorkerDone
    /\ IF pending = NoException
       THEN /\ content_printer' = ContentPrinter
            /\ last_call' = "__init__"
            /\ finish_calls' = 0
            /\ printer_exception' = NO_EXCEPTION
            /\ pc' = "read"
       ELSE /\ pc' = "except"
            /\ UNCHANGED <<content_printer, last_call, finish_calls,
                           printer_exception>>
    /\ UNCHANGED <<max_retries, max_empty_chunks, print_chunks, conversation,
                   retries, worker, behaviour, response, text, empty_chunk_count,
                   pending, outcome, api_calls, attempts, sleeps, chunks_read,
                   all_undecodable, stdout, printed_raw>>
    /\ UNCHANGED <<driver_vars, response_vars, command_vars>>

\* One round of for chunk in response.
ReadChunk ==
    /\ pc = "read"
    /\ response # <<>>
    /\ LET chunk == Head(response)
           checked == check_returned_chunk(chunk)
           r == process_response_chunk(chunk)
           raised == IF chunk.kind = "raise"
                     THEN Exception("APIConnectionError", "stream")
                     ELSE IF checked # NoException THEN checked
                     ELSE r.raise
           w == IF print_chunks THEN print_chunk(World, r.text) ELSE World
       IN  /\ response' = Tail(response)
           /\ chunks_read' = chunks_read + 1
           /\ IF raised # NoException
              THEN /\ pending' = raised
                   /\ pc' = "except"
                   /\ UNCHANGED <<text, empty_chunk_count, content_printer, stdout,
                                  printed_raw, last_call, printer_exception>>
              ELSE IF w.exc # NO_EXCEPTION
              THEN /\ pending' = Exception(w.exc, "print_chunk")
                   /\ pc' = "except"
                   /\ text' = text \o r.text
                   /\ content_printer' = w.cp
                   /\ stdout' = w.out
                   /\ printed_raw' = w.raw
                   /\ printer_exception' = w.exc
                   /\ last_call' = "print_chunk"
                   /\ UNCHANGED empty_chunk_count
              ELSE /\ text' = text \o r.text
                   /\ UNCHANGED printer_exception
                   /\ content_printer' = w.cp
                   /\ stdout' = w.out
                   /\ printed_raw' = w.raw
                   /\ last_call' = IF print_chunks THEN "print_chunk" ELSE last_call
                   /\ empty_chunk_count' =
                          IF CountsAsEmpty(r.text) THEN empty_chunk_count + 1
                          ELSE empty_chunk_count
                   /\ pc' = IF r.stop THEN "finish" ELSE "read"
                   /\ UNCHANGED pending
    /\ UNCHANGED <<max_retries, max_empty_chunks, print_chunks, conversation,
                   retries, worker, behaviour, outcome, api_calls, attempts, sleeps,
                   all_undecodable, finish_calls>>
    /\ UNCHANGED <<driver_vars, response_vars, command_vars>>

\* The stream is exhausted: the for loop ends.
EndOfStream ==
    /\ pc = "read"
    /\ response = <<>>
    /\ pc' = "finish"
    /\ UNCHANGED <<max_retries, max_empty_chunks, print_chunks, conversation,
                   retries, worker, behaviour, response, text, empty_chunk_count,
                   pending, outcome, api_calls, attempts, sleeps, chunks_read,
                   all_undecodable>>
    /\ UNCHANGED <<printer_vars, driver_vars, response_vars, command_vars>>

\* content_printer.finish(); return text, empty_chunk_count
FinishAttempt ==
    /\ pc = "finish"
    /\ LET w == finish(World)
       IN  /\ content_printer' = w.cp
           /\ stdout' = w.out
           /\ printed_raw' = w.raw
    /\ UNCHANGED printer_exception
    /\ finish_calls' = finish_calls + 1
    /\ last_call' = "finish"
    /\ pc' = "check"
    /\ UNCHANGED <<max_retries, max_empty_chunks, print_chunks, conversation,
                   retries, worker, behaviour, response, text, empty_chunk_count,
                   pending, outcome, api_calls, attempts, sleeps, chunks_read,
                   all_undecodable>>
    /\ UNCHANGED <<driver_vars, response_vars, command_vars>>

\* if empty_chunk_count > self.max_empty_chunks: self._handle_retry(...)
RetryTooManyEmpty ==
    /\ pc = "check"
    /\ TooManyEmpty
    /\ HandleRetry(TOO_MANY_EMPTY_NOTICE)
    /\ all_undecodable' = (all_undecodable /\ ~json_loads(text).ok)
    /\ UNCHANGED <<max_retries, max_empty_chunks, print_chunks, conversation,
                   worker, behaviour, response, text, empty_chunk_count,
                   pending, outcome, api_calls, attempts, chunks_read>>
    /\ UNCHANGED <<content_printer, printed_raw, last_call, finish_calls,
                   printer_exception>>
    /\ UNCHANGED <<driver_vars, response_vars, command_vars>>

\* return Response.from_json(text)
ReturnResponse ==
    /\ pc = "check"
    /\ ~TooManyEmpty
    /\ from_json(text).kind = "Response"
    /\ outcome' = [kind |-> "Response", message |-> "", value |-> from_json(text).value]
    /\ all_undecodable' = FALSE
    /\ pc' = "done"
    /\ UNCHANGED <<max_retries, max_empty_chunks, print_chunks, conversation,
                   retries, worker, behaviour, response, text, empty_chunk_count,
                   pending, api_calls, attempts, sleeps, chunks_read>>
    /\ UNCHANGED <<printer_vars, driver_vars, response_vars, command_vars>>

\* except ValueError as e: self._handle_retry(...)
RetryInvalidJson ==
    /\ pc = "check"
    /\ ~TooManyEmpty
    /\ from_json(text).kind = "ValueError"
    /\ HandleRetry(ErrorNotice(INVALID_JSON_MESSAGE))
    /\ UNCHANGED <<max_retries, max_empty_chunks, print_chunks, conversation,
                   worker, behaviour, response, text, empty_chunk_count,
                   pending, outcome, api_calls, attempts, chunks_read,
                   all_undecodable>>
    /\ UNCHANGED <<content_printer, printed_raw, last_call, finish_calls,
                   printer_exception>>
    /\ UNCHANGED <<driver_vars, response_vars, command_vars>>

\* Response.from_json raises something that is no ValueError: it is caught
\* by no except clause and leaves _generate_response.
DecodeRaises ==
    /\ pc = "check"
    /\ ~TooManyEmpty
    /\ from_json(text).kind \notin {"Response", "ValueError"}
    /\ outcome' = [kind |-> from_json(text).kind, message |-> "", value |-> NoResponse]
    /\ all_undecodable' = FALSE
    /\ pc' = "raised"
    /\ UNCHANGED <<max_retries, max_empty_chunks, print_chunks, conversation,
                   retries, worker, behaviour, response, text, empty_chunk_count,
                   pending, api_calls, attempts, sleeps, chunks_read>>
    /\ UNCHANGED <<printer_vars, driver_vars, response_vars, command_vars>>

\* except (OpenAIError, concurrent.futures.TimeoutError) as e:
\*     self._handle_retry(...)
RetryOnError ==
    /\ pc = "except"
    /\ IsRetryable(pending)
    /\ HandleRetry(ErrorNotice(pending.message))
    /\ all_undecodable' = FALSE
    /\ UNCHANGED <<max_retries, max_empty_chunks, print_chunks, conversation,
                   worker, behaviour, response, text, empty_chunk_count,
                   pending, outcome, api_calls, attempts, chunks_read>>
    /\ UNCHANGED <<content_printer, printed_raw, last_call, finish_calls,
                   printer_exception>>
    /\ UNCHANGED <<driver_vars, response_vars, command_vars>>

\* Any other exception leaves _generate_response and call_gpt4.
Propagate ==
    /\ pc = "except"
    /\ ~IsRetryable(pending)
    /\ outcome' = [kind |-> pending.kind, message |-> pending.message,
                   value |-> NoResponse]
    /\ all_undecodable' = FALSE
    /\ pc' = "raised"
    /\ UNCHANGED <<max_retries, max_empty_chunks, print_chunks, conversation,
                   retries, worker, behaviour, response, text, empty_chunk_count,
                   pending, api_calls, attempts, sleeps, chunks_read>>
    /\ UNCHANGED <<printer_vars, driver_vars, response_vars, command_vars>>

\* A test that holds for the value True only.
truthy_only_true(v) == v.kind = "true"

\* bool(v) of a decoded JSON value.
truthy(v) ==
    CASE v.kind = "null" -> FALSE
      [] v.kind = "false" -> FALSE
      [] v.kind = "true" -> TRUE
      [] v.kind = "string" -> v.str # <<>>
      [] v.kind = "number" -> v.str \notin {<<"0">>, <<"-", "0">>}
      [] OTHER -> v.items # <<>>

ERROR_HEADER == "GPT-4 returned an error:"
EXITING == "Exiting."

\* converse (main.py) after call_gpt4 has returned a Response with an error:
\* the error is printed and the process exits with status 1.
ConverseErrorExit ==
    /\ pc = "done"
    /\ truthy(outcome.value.error)
    /\ stdout' = stdout \o <<ERROR_HEADER, NEWLINE>> \o outcome.value.error.str
                        \o <<NEWLINE, EXITING, NEWLINE>>
    /\ pc' = "exit(1)"
    /\ UNCHANGED <<max_retries, max_empty_chunks, print_chunks, conversation,
                   retries, worker, behaviour, response, text, empty_chunk_count,
                   pending, outcome, api_calls, attempts, sleeps, chunks_read,
                   all_undecodable>>
    /\ UNCHANGED <<content_printer, printed_raw, last_call, finish_calls,
                   printer_exception>>
    /\ UNCHANGED <<driver_vars, response_vars, command_vars>>

\* converse (main.py) after call_gpt4 has returned a Response without an
\* error: gpt.add_to_conversation(Role.ASSISTANT, response.to_json())
ConverseAppends ==
    /\ pc = "done"
    /\ ~truthy(outcome.value.error)
    /\ conversation' =
           add_to_conversation(conversation, "assistant", to_json(outcome.value))
    /\ pc' = "appended"
    /\ UNCHANGED <<max_retries, max_empty_chunks, print_chunks,
                   retries, worker, behaviour, response, text, empty_chunk_count,
                   pending, outcome, api_calls, attempts, sleeps, chunks_read,
                   all_undecodable>>
    /\ UNCHANGED <<printer_vars, driver_vars, response_vars, command_vars>>

Next ==
    \/ CallGpt4
    \/ Submit
    \/ GiveUp
    \/ WorkerFinishes
    \/ FutureResult
    \/ FutureTimeout
    \/ ExecutorShutdown
    \/ ReadChunk
    \/ EndOfStream
    \/ FinishAttempt
    \/ RetryTooManyEmpty
    \/ ReturnResponse
    \/ RetryInvalidJson
    \/ DecodeRaises
    \/ RetryOnError
    \/ Propagate
    \/ ConverseErrorExit
    \/ ConverseAppends

Spec == Init /\ [][Next]_vars

\* The same turn with a client whose stream can hold a fragment with a
\* surrogate code point in its content.
SurrogateStreams ==
    { <<Chunk(Str(TXT_OPEN \o <<HIGH_SURROGATE>>), "None"),
        Chunk(Str(TXT_CLOSE), "stop")>> }

SurrogateBehaviours ==
    {[call |-> "stream", stream |-> st] :
        st \in SurrogateStreams \cup OtherStreams \cup {<<Chunk(None, "stop")>>}}
    \cup {[call |-> c, stream |-> <<>>] :
             c \in {"APIConnectionError", "AuthenticationError", "hang"}}

SubmitSurrogate == SubmitFrom(SurrogateBehaviours)

NextSurrogateStream ==
    \/ CallGpt4
    \/ SubmitSurrogate
    \/ GiveUp
    \/ WorkerFinishes
    \/ FutureResult
    \/ FutureTimeout
    \/ ExecutorShutdown
    \/ ReadChunk
    \/ EndOfStream
    \/ FinishAttempt
    \/ RetryTooManyEmpty
    \/ ReturnResponse
    \/ RetryInvalidJson
    \/ DecodeRaises
    \/ RetryOnError
    \/ Propagate
    \/ ConverseErrorExit
    \/ ConverseAppends

SpecSurrogateStream == Init /\ [][NextSurrogateStream]_vars

(***************************************************************************)
(* A user interrupt (main.py): KeyboardInterrupt is raised in the main     *)
(* thread wherever the turn is, leaves call_gpt4 and converse like any     *)
(* exception that no except clause of chat.py names, and is caught by      *)
(* main, which prints a message and exits.                                 *)
(***************************************************************************)
INTERRUPT_MESSAGE == "Keyboard interrupt received. Exiting."

\* The places of a turn at which the main thread runs code of chat.py.
Interruptible == pc \in {"loop", "read", "finish", "check"}

\* KeyboardInterrupt is raised between two steps of the turn.
KeyboardInterrupt ==
    /\ Interruptible
    /\ pending' = Exception("KeyboardInterrupt", "")
    /\ pc' = "except"
    /\ UNCHANGED <<max_retries, max_empty_chunks, print_chunks, conversation,
                   retries, worker, behaviour, response, text, empty_chunk_count,
                   outcome, api_calls, attempts, sleeps, chunks_read,
                   all_undecodable>>
    /\ UNCHANGED <<printer_vars, driver_vars, response_vars, command_vars>>

\* except KeyboardInterrupt: print(...); sys.exit(0)
MainExit ==
    /\ pc = "raised"
    /\ outcome.kind = "KeyboardInterrupt"
    /\ stdout' = stdout \o <<NEWLINE, INTERRUPT_MESSAGE, NEWLINE>>
    /\ pc' = "exit(0)"
    /\ UNCHANGED <<max_retries, max_empty_chunks, print_chunks, conversation,
                   retries, worker, behaviour, response, text, empty_chunk_count,
                   pending, outcome, api_calls, attempts, sleeps, chunks_read,
                   all_undecodable>>
    /\ UNCHANGED <<content_printer, printed_raw, last_call, finish_calls,
                   printer_exception>>
    /\ UNCHANGED <<driver_vars, response_vars, command_vars>>

NextInterruptible == Next \/ KeyboardInterrupt \/ MainExit

SpecInterruptible == Init /\ [][NextInterruptible]_vars

(***************************************************************************)
(* do_command (calais/main.py): the command of a Response is filled in,    *)
(* reviewed, shown to the user and, if the user says so, run.              *)
(***************************************************************************)
UNSAFE_STRINGS ==
    {<<"r", "m", " ", "-", "r", " ", "-", "f", " ", "/">>,
     <<"r", "m", " ", "-", "r", "f", " ", "/">>,
     <<"r", "m", " ", "-", "f", "r", " ", "/">>,
     <<"r", "m", " ", "-", "r", "f", " ", "-", "-", "n", "o", "-", "p", "r",
       "e", "s", "e", "r", "v", "e", "-", "r", "o", "o", "t">>,
     <<"r", "m", " ", "-", "f", "r", " ", "-", "-", "n", "o", "-", "p", "r",
       "e", "s", "e", "r", "v", "e", "-", "r", "o", "o", "t">>,
     <<"r", "m", " ", "-", "-", "n", "o", "-", "p", "r", "e", "s", "e", "r",
       "v", "e", "-", "r", "o", "o", "t", " ", "-", "r", "f", " ">>,
     <<"r", "m", " ", "-", "-", "n", "o", "-", "p", "r", "e", "s", "e", "r",
       "v", "e", "-", "r", "o", "o", "t", " ", "-", "f", "r", " ">>,
     <<">", " ", "/", "d", "e", "v", "/", "s", "d", "a">>,
     <<"o", "f", "=", "/", "d", "e", "v", "/", "s", "d", "a">>,
     <<"m", "k", "f", "s", ".", "e", "x", "t", "2", " ", "/", "d", "e", "v",
       "/", "s", "d", "a">>,
     <<"m", "k", "f", "s", ".", "e", "x", "t", "3", " ", "/", "d", "e", "v",
       "/", "s", "d", "a">>,
     <<"m", "k", "f", "s", ".", "e", "x", "t", "4", " ", "/", "d", "e", "v",
       "/", "s", "d", "a">>,
     <<"c", "h", "m", "o", "d", " ", "-", "R", " ", "7", "7", "7", " ", "/">>,
     <<":", "(", ")", "{", " ", ":", "|", ":", "&", " ", "}", ";", ":">>,
     <<"h", "i", "s", "t", "o", "r", "y", " ", "|", " ">>,
     <<"f", "o", "r", "m", "a", "t", " ", "c", ":", " ", "/", "q">>,
     <<"t", "r", "u", "n", "c", "a", "t", "e", " ", "-", "s", " ", "0">>}
CMD_LS == <<"l", "s", " ", " ", "-", "l", "a">>
CMD_LS_DIR == <<"l", "s", " ", "<", "d", ">">>
CMD_RM_SPACED == <<"r", "m", " ", " ", "-", "r", "f", " ", " ", "/">>
CMD_RM_DIR == <<"r", "m", " ", "-", "r", "f", " ", "<", "d", ">">>
CMD_CP == <<"c", "p", " ", "<", "a", ">", " ", "<", "b", ">">>
CMD_MISMATCHED == <<"e", "c", "h", "o", " ", "<", "a">>
CMD_HISTORY == <<"h", "i", "s", "t", "o", "r", "y", " ", "|", " ">>
CMD_FORMAT == <<" ", "f", "o", "r", "m", "a", "t", " ", "c", ":", " ", "/", "q", " ">>

\* The command fields GPT-4 returns.
Commands ==
    {CMD_LS, CMD_LS_DIR, CMD_RM_SPACED, CMD_RM_DIR, CMD_CP, CMD_MISMATCHED,
     CMD_HISTORY, CMD_FORMAT}

\* What the user types for a placeholder.
ROOT == <<"/">>
ROOT_WILDCARD == <<"/", "*">>
PlaceholderInputs == {ROOT, ROOT_WILDCARD, <<"x">>, <<"/", " ">>, <<>>}

\* What the user types at the prompts of do_command.
CommandInputs == {"", "r", "R", "q", "Quit", "e", "EXPLAIN", "n"}
PromptInputs == {"", "Q", "more"}

\* str.lower() over the inputs of the model.
lower(s) ==
    CASE s = "R" -> "r"
      [] s = "Q" -> "q"
      [] s = "Quit" -> "quit"
      [] s = "EXPLAIN" -> "explain"
      [] OTHER -> s

IsSpace(c) == c \in {" ", NEWLINE, TAB}

\* str.split(): the maximal runs of characters that are no whitespace.
RECURSIVE split(_, _, _)
split(s, word, words) ==
    IF s = <<>>
    THEN IF word = <<>> THEN words ELSE Append(words, word)
    ELSE IF IsSpace(Head(s))
    THEN split(Tail(s), <<>>, IF word = <<>> THEN words ELSE Append(words, word))
    ELSE split(Tail(s), Append(word, Head(s)), words)

\* sep.join(words)
RECURSIVE join(_, _)
join(sep, words) ==
    IF words = <<>> THEN <<>>
    ELSE IF Len(words) = 1 THEN Head(words)
    ELSE Head(words) \o sep \o join(sep, Tail(words))

\* str.strip()
RECURSIVE lstrip(_)
lstrip(s) == IF s # <<>> /\ IsSpace(Head(s)) THEN lstrip(Tail(s)) ELSE s
RECURSIVE rstrip(_)
rstrip(s) ==
    IF s # <<>> /\ IsSpace(s[Len(s)]) THEN rstrip(SubSeq(s, 1, Len(s) - 1)) ELSE s
strip(s) == rstrip(lstrip(s))

\* " ".join(command.strip().split())
Normalised(command_text) == join(<<" ">>, split(strip(command_text), <<>>, <<>>))

\* any([string in command for string in UNSAFE_STRINGS])
IsUnsafe(command_text) == \E string \in UNSAFE_STRINGS : Contains(command_text, string)

\* A review that looks at the command as it came, without cleaning it.
ReviewedCommand_raw(command_text) == command_text

\* The command review_command checks and returns.
ReviewedCommand(command_text) == Normalised(command_text)

\* len(re.findall(c, command))
CountOf(s, c) == Cardinality({i \in 1..Len(s) : s[i] = c})

\* The end of a match of <([^<>]+)> that starts at position i of s, 0 if
\* there is none.
PlaceholderEnd(s, i) ==
    LET ends == {j \in (i + 2)..Len(s) :
                    /\ s[j] = ">"
                    /\ \A k \in (i + 1)..(j - 1) : s[k] \notin {"<", ">"}}
    IN  IF i < 1 \/ i > Len(s) \/ s[i] # "<" \/ ends = {} THEN 0
        ELSE CHOOSE j \in ends : TRUE

\* The start of the leftmost match of <([^<>]+)> in s, 0 if there is none.
PlaceholderStart(s) ==
    LET starts == {i \in 1..Len(s) : PlaceholderEnd(s, i) # 0}
    IN  IF starts = {} THEN 0 ELSE CHOOSE i \in starts : \A j \in starts : i <= j

ENTER_VALUE_PROMPT == "Enter the value for "
UNSAFE_INPUT_NOTICE == "Unsafe input "
UNSAFE_COMMAND_NOTICE == "Unsafe command. Exiting."
COMMAND_LABEL == "Command: "
COMMAND_PROMPT == "[r]un,(e)xplain],(q)uit, or continue chatting: "
NEXT_PROMPT == "> Prompt ([q] to quit): "
INTERRUPTED_NOTICE == "Execution interrupted by user. Exiting."
EXPLAIN_OPEN == "Explain the command "
EXPLAIN_CLOSE ==
    ". Return the command in the command field and the explanation in the content field."

\* What subprocess.run(command, shell=True, check=True) does.
RunResults == {"returns", "CalledProcessError", "KeyboardInterrupt"}

\* do_command is entered with a Response whose command is a string.
InitCommand ==
    /\ cmd_pc = "process_command"
    /\ response_command \in Commands
    /\ command_local = <<>>
    /\ sub_rest = <<>>
    /\ placeholder_inputs = <<>>
    /\ user_input = NoInput
    /\ executed = <<>>
    /\ user_prompt = <<>>
    /\ prompt_read = FALSE
    /\ PrinterIdle
    /\ DriverIdle
    /\ ResponseIdle
    /\ ChatIdle

\* process_command up to re.sub: the count of angle brackets.
ProcessCommand ==
    /\ cmd_pc = "process_command"
    /\ IF CountOf(response_command, "<") # CountOf(response_command, ">")
       THEN /\ cmd_pc' = "ValueError"
            /\ UNCHANGED <<command_local, sub_rest>>
       ELSE /\ cmd_pc' = "re.sub"
            /\ command_local' = <<>>
            /\ sub_rest' = response_command
    /\ UNCHANGED <<prompt_read, response_command, placeholder_inputs, user_input, executed,
                   user_prompt>>
    /\ UNCHANGED <<printer_vars, driver_vars, response_vars, chat_vars>>

\* re.sub finds the next placeholder and calls check_input for it.
CheckInput ==
    /\ cmd_pc = "re.sub"
    /\ PlaceholderStart(sub_rest) # 0
    /\ \E input \in PlaceholderInputs :
          /\ placeholder_inputs' = Append(placeholder_inputs, input)
          /\ IF input = ROOT \/ input = ROOT_WILDCARD
             THEN /\ stdout' = stdout
                        \o <<ENTER_VALUE_PROMPT>>
                        \o SubSeq(sub_rest, PlaceholderStart(sub_rest),
                                  PlaceholderEnd(sub_rest, PlaceholderStart(sub_rest)))
                        \o <<": ", UNSAFE_INPUT_NOTICE>> \o input
                        \o <<". Exiting.", NEWLINE>>
                  /\ cmd_pc' = "exit(1)"
                  /\ UNCHANGED <<command_local, sub_rest>>
             ELSE /\ stdout' = stdout
                        \o <<ENTER_VALUE_PROMPT>>
                        \o SubSeq(sub_rest, PlaceholderStart(sub_rest),
                                  PlaceholderEnd(sub_rest, PlaceholderStart(sub_rest)))
                        \o <<": ">>
                  /\ command_local' = command_local
                        \o SubSeq(sub_rest, 1, PlaceholderStart(sub_rest) - 1)
                        \o input
                  /\ sub_rest' =
                        From(sub_rest,
                             PlaceholderEnd(sub_rest, PlaceholderStart(sub_rest)) + 1)
                  /\ UNCHANGED cmd_pc
    /\ prompt_read' = TRUE
    /\ UNCHANGED <<response_command, user_input, executed, user_prompt>>
    /\ UNCHANGED <<content_printer, printed_raw, last_call, finish_calls,
                   printer_exception>>
    /\ UNCHANGED <<driver_vars, response_vars, chat_vars>>

\* re.sub finds no further placeholder: process_command returns.
ProcessCommandReturns ==
    /\ cmd_pc = "re.sub"
    /\ PlaceholderStart(sub_rest) = 0
    /\ command_local' = command_local \o sub_rest
    /\ sub_rest' = <<>>
    /\ cmd_pc' = "review_command"
    /\ UNCHANGED <<prompt_read, response_command, placeholder_inputs, user_input, executed,
                   user_prompt>>
    /\ UNCHANGED <<printer_vars, driver_vars, response_vars, chat_vars>>

\* review_command, then print(f"Command: ...") of do_command.
ReviewCommand ==
    /\ cmd_pc = "review_command"
    /\ IF IsUnsafe(ReviewedCommand(command_local))
       THEN /\ stdout' = stdout \o <<UNSAFE_COMMAND_NOTICE, NEWLINE>>
            /\ cmd_pc' = "exit(1)"
            /\ UNCHANGED command_local
       ELSE /\ command_local' = ReviewedCommand(command_local)
            /\ stdout' = stdout \o <<COMMAND_LABEL, GRAVE>>
                             \o ReviewedCommand(command_local) \o <<GRAVE, NEWLINE>>
            /\ cmd_pc' = "input"
    /\ UNCHANGED <<prompt_read, response_command, sub_rest, placeholder_inputs, user_input,
                   executed, user_prompt>>
    /\ UNCHANGED <<content_printer, printed_raw, last_call, finish_calls,
                   printer_exception>>
    /\ UNCHANGED <<driver_vars, response_vars, chat_vars>>

\* user_input = input("[r]un,(e)xplain],(q)uit, or continue chatting: ")
ReadUserInput ==
    /\ cmd_pc = "input"
    /\ user_input' \in CommandInputs
    /\ stdout' = stdout \o <<COMMAND_PROMPT>>
    /\ cmd_pc' = "match"
    /\ prompt_read' = TRUE
    /\ UNCHANGED <<response_command, command_local, sub_rest, placeholder_inputs,
                   executed, user_prompt>>
    /\ UNCHANGED <<content_printer, printed_raw, last_call, finish_calls,
                   printer_exception>>
    /\ UNCHANGED <<driver_vars, response_vars, chat_vars>>

\* case "" | "R" | "r"
RunChosen == lower(user_input) \in {"", "R", "r"}
\* case "q" | "quit" | "exit"
QuitChosen == lower(user_input) \in {"q", "quit", "exit"}
\* case "e" | "ex" | "explain"
ExplainChosen == lower(user_input) \in {"e", "ex", "explain"}

\* subprocess.run(command, shell=True, check=True), whatever it does, and
\* the sys.exit(0) of the finally clause.
RunCommand ==
    /\ cmd_pc = "match"
    /\ RunChosen
    /\ executed' = Append(executed, command_local)
    /\ \E result \in RunResults :
          stdout' = IF result = "KeyboardInterrupt"
                    THEN stdout \o <<INTERRUPTED_NOTICE, NEWLINE>>
                    ELSE stdout
    /\ cmd_pc' = "exit(0)"
    /\ UNCHANGED <<prompt_read, response_command, command_local, sub_rest, placeholder_inputs,
                   user_input, user_prompt>>
    /\ UNCHANGED <<content_printer, printed_raw, last_call, finish_calls,
                   printer_exception>>
    /\ UNCHANGED <<driver_vars, response_vars, chat_vars>>

\* case "q" | "quit" | "exit": sys.exit(0)
QuitCommand ==
    /\ cmd_pc = "match"
    /\ ~RunChosen
    /\ QuitChosen
    /\ cmd_pc' = "exit(0)"
    /\ UNCHANGED <<prompt_read, response_command, command_local, sub_rest, placeholder_inputs,
                   user_input, executed, user_prompt>>
    /\ UNCHANGED <<printer_vars, driver_vars, response_vars, chat_vars>>

\* case "e" | "ex" | "explain": the explain prompt is returned.
ExplainCommand ==
    /\ cmd_pc = "match"
    /\ ~RunChosen
    /\ ~QuitChosen
    /\ ExplainChosen
    /\ user_prompt' = <<EXPLAIN_OPEN, GRAVE>> \o command_local \o <<GRAVE, EXPLAIN_CLOSE>>
    /\ cmd_pc' = "returned"
    /\ UNCHANGED <<prompt_read, response_command, command_local, sub_rest, placeholder_inputs,
                   user_input, executed>>
    /\ UNCHANGED <<printer_vars, driver_vars, response_vars, chat_vars>>

\* case _: the user is asked for the next prompt, which is returned unless
\* it says to quit.
ContinueChatting ==
    /\ cmd_pc = "match"
    /\ ~RunChosen
    /\ ~QuitChosen
    /\ ~ExplainChosen
    /\ stdout' = stdout \o <<NEWLINE, NEXT_PROMPT>>
    /\ \E next_prompt \in PromptInputs :
          IF lower(next_prompt) \in {"", "q", "quit", "exit"}
          THEN /\ cmd_pc' = "exit(0)"
               /\ UNCHANGED user_prompt
          ELSE /\ cmd_pc' = "returned"
               /\ user_prompt' = <<next_prompt>>
    /\ prompt_read' = TRUE
    /\ UNCHANGED <<response_command, command_local, sub_rest, placeholder_inputs,
                   user_input, executed>>
    /\ UNCHANGED <<content_printer, printed_raw, last_call, finish_calls,
                   printer_exception>>
    /\ UNCHANGED <<driver_vars, response_vars, chat_vars>>

NextCommand ==
    \/ ProcessCommand
    \/ CheckInput
    \/ ProcessCommandReturns
    \/ ReviewCommand
    \/ ReadUserInput
    \/ RunCommand
    \/ QuitCommand
    \/ ExplainCommand
    \/ ContinueChatting

SpecCommand == InitCommand /\ [][NextCommand]_vars

(***************************************************************************)
(* converse (calais/main.py): the session loop.  A turn of Chat.call_gpt4  *)
(* is one step here: it appends the user message and returns a Response or *)
(* raises; its attempts are the subject of Spec.  stdout holds what        *)
(* converse, do_command and do_content_prompt print themselves.            *)
(***************************************************************************)
CONTENT_PROMPT == "[q]uit, or continue chatting: "
CALL_FAILED == "call_gpt4 raised"

\* The Responses Response.from_json gives call_gpt4 to return.
ConverseResponses ==
    { Response(None, None, None),
      Response(Str(<<>>), None, Str(<<>>)),
      Response(Str(<<"A">>), None, None),
      Response(Str(<<"A">>), Str(CMD_LS), None),
      Response(None, Str(CMD_LS_DIR), Str(<<>>)),
      Response(None, Str(CMD_FORMAT), None),
      Response(None, None, Str(<<"e">>)),
      Response(Str(<<"A">>), Str(CMD_LS), Str(<<"e">>)) }

\* The number of messages of a role in a conversation.
MessagesOf(conv, role) == Cardinality({i \in 1..Len(conv) : conv[i].role = role})

\* main() has made the Chat with its system message and has the first
\* prompt from the command line or from input("> Prompt: ").
InitConverse ==
    /\ pc = "converse"
    /\ max_retries = 0
    /\ max_empty_chunks = 0
    /\ print_chunks = TRUE
    /\ conversation = <<[role |-> "system", content |-> <<"s">>]>>
    /\ retries = 0
    /\ AttemptIdle
    /\ outcome = NoOutcome
    /\ api_calls = 0
    /\ attempts = 0
    /\ sleeps = 0
    /\ all_undecodable = TRUE
    /\ PrinterIdle
    /\ DriverIdle
    /\ ResponseIdle
    /\ cmd_pc = "idle"
    /\ response_command = <<>>
    /\ command_local = <<>>
    /\ sub_rest = <<>>
    /\ placeholder_inputs = <<>>
    /\ user_input = NoInput
    /\ executed = <<>>
    /\ user_prompt = USER_PROMPT
    /\ prompt_read = TRUE

\* response = gpt.call_gpt4(user_prompt, True)
ConverseCallGpt4 ==
    /\ pc = "converse"
    /\ MessagesOf(conversation, "user") < MaxTurns
    /\ conversation' = add_to_conversation(conversation, "user", user_prompt)
    /\ \/ \E r \in ConverseResponses :
             /\ outcome' = [kind |-> "Response", message |-> "", value |-> r]
             /\ pc' = "done"
       \/ /\ outcome' = [kind |-> "ChatError", message |-> CALL_FAILED,
                         value |-> NoResponse]
          /\ pc' = "raised"
    /\ prompt_read' = FALSE
    /\ UNCHANGED <<max_retries, max_empty_chunks, print_chunks,
                   retries, worker, behaviour, response, text, empty_chunk_count,
                   pending, api_calls, attempts, sleeps, chunks_read,
                   all_undecodable>>
    /\ UNCHANGED <<cmd_pc, response_command, command_local, sub_rest,
                   placeholder_inputs, user_input, executed, user_prompt>>
    /\ UNCHANGED <<printer_vars, driver_vars, response_vars>>

\* if response.command is not None: user_prompt = do_command(response)
ConverseDoCommand ==
    /\ pc = "appended"
    /\ outcome.value.command # None
    /\ pc' = "do_command"
    /\ cmd_pc' = "process_command"
    /\ response_command' = outcome.value.command.str
    /\ command_local' = <<>>
    /\ sub_rest' = <<>>
    /\ placeholder_inputs' = <<>>
    /\ user_input' = NoInput
    /\ UNCHANGED <<executed, user_prompt, prompt_read>>
    /\ UNCHANGED <<max_retries, max_empty_chunks, print_chunks, conversation,
                   retries, worker, behaviour, response, text, empty_chunk_count,
                   pending, outcome, api_calls, attempts, sleeps, chunks_read,
                   all_undecodable>>
    /\ UNCHANGED <<printer_vars, driver_vars, response_vars>>

\* do_command has returned the next prompt: continue
ConverseContinue ==
    /\ pc = "do_command"
    /\ cmd_pc = "returned"
    /\ pc' = "converse"
    /\ cmd_pc' = "idle"
    /\ UNCHANGED <<response_command, command_local, sub_rest, placeholder_inputs,
                   user_input, executed, user_prompt, prompt_read>>
    /\ UNCHANGED <<max_retries, max_empty_chunks, print_chunks, conversation,
                   retries, worker, behaviour, response, text, empty_chunk_count,
                   pending, outcome, api_calls, attempts, sleeps, chunks_read,
                   all_undecodable>>
    /\ UNCHANGED <<printer_vars, driver_vars, response_vars>>

\* if response.content: user_prompt = do_content_prompt()
DoContentPrompt ==
    /\ pc = "appended"
    /\ outcome.value.command = None
    /\ truthy(outcome.value.content)
    /\ stdout' = stdout \o <<CONTENT_PROMPT>>
    /\ prompt_read' = TRUE
    /\ \E next_prompt \in PromptInputs :
          IF lower(next_prompt) \in {"", "q", "quit", "exit"}
          THEN /\ pc' = "exit(0)"
               /\ UNCHANGED user_prompt
          ELSE /\ pc' = "converse"
               /\ user_prompt' = <<next_prompt>>
    /\ UNCHANGED <<cmd_pc, response_command, command_local, sub_rest,
                   placeholder_inputs, user_input, executed>>
    /\ UNCHANGED <<max_retries, max_empty_chunks, print_chunks, conversation,
                   retries, worker, behaviour, response, text, empty_chunk_count,
                   pending, outcome, api_calls, attempts, sleeps, chunks_read,
                   all_undecodable>>
    /\ UNCHANGED <<content_printer, printed_raw, last_call, finish_calls,
                   printer_exception>>
    /\ UNCHANGED <<driver_vars, response_vars>>

\* Neither if of the loop body is taken: the while loop starts over with
\* user_prompt as it is.
ConverseLoops ==
    /\ pc = "appended"
    /\ outcome.value.command = None
    /\ ~truthy(outcome.value.content)
    /\ pc' = "converse"
    /\ UNCHANGED <<max_retries, max_empty_chunks, print_chunks, conversation,
                   retries, worker, behaviour, response, text, empty_chunk_count,
                   pending, outcome, api_calls, attempts, sleeps, chunks_read,
                   all_undecodable>>
    /\ UNCHANGED <<printer_vars, driver_vars, response_vars, command_vars>>

NextConverse ==
    \/ ConverseCallGpt4
    \/ ConverseErrorExit
    \/ ConverseAppends
    \/ ConverseDoCommand
    \/ NextCommand
    \/ ConverseContinue
    \/ DoContentPrompt
    \/ ConverseLoops

SpecConverse == InitConverse /\ [][NextConverse]_vars

(***************************************************************************)
(* chat_with (src/main.py) with the Chat of src/chat.py: the chat session  *)
(* of main.py -c.  call_gpt4 is one step, as in SpecConverse; it returns   *)
(* the text of the response.                                               *)
(***************************************************************************)
ChatWithTexts == {<<>>, <<"A">>, <<"B">>, TXT_OBJECT}
ChatWithPrompts == {"", "Q", "more", "why"}

\* main() of src/main.py for -c: initialize_gpt("") has added the system
\* message, and the prompt is taken from the command line.
InitChatWith ==
    /\ pc = "chat_with"
    /\ max_retries = 0
    /\ max_empty_chunks = 0
    /\ print_chunks = TRUE
    /\ conversation = <<[role |-> "system", content |-> <<>>]>>
    /\ retries = 0
    /\ AttemptIdle
    /\ outcome = NoOutcome
    /\ api_calls = 0
    /\ attempts = 0
    /\ sleeps = 0
    /\ all_undecodable = TRUE
    /\ PrinterIdle
    /\ DriverIdle
    /\ ResponseIdle
    /\ cmd_pc = "idle"
    /\ response_command = <<>>
    /\ command_local = <<>>
    /\ sub_rest = <<>>
    /\ placeholder_inputs = <<>>
    /\ user_input = NoInput
    /\ executed = <<>>
    /\ user_prompt = USER_PROMPT
    /\ prompt_read = TRUE

\* gpt.add_to_conversation("user", user_prompt)
ChatWithAddsUser ==
    /\ pc = "chat_with"
    /\ MessagesOf(conversation, "assistant") < MaxTurns
    /\ conversation' = add_to_conversation(conversation, "user", user_prompt)
    /\ pc' = "chat_with:call_gpt4"
    /\ UNCHANGED <<max_retries, max_empty_chunks, print_chunks,
                   retries, worker, behaviour, response, text, empty_chunk_count,
                   pending, outcome, api_calls, attempts, sleeps, chunks_read,
                   all_undecodable>>
    /\ UNCHANGED <<printer_vars, driver_vars, response_vars, command_vars>>

\* response = gpt.call_gpt4(user_prompt, True) with Chat.call_gpt4 of
\* src/chat.py: self.add_to_conversation("user", prompt), then the text of
\* generate_response or its ChatError.
ChatWithCallGpt4 ==
    /\ pc = "chat_with:call_gpt4"
    /\ conversation' = add_to_conversation(conversation, "user", user_prompt)
    /\ \/ /\ text' \in ChatWithTexts
          /\ outcome' = [kind |-> "str", message |-> "", value |-> NoResponse]
          /\ pc' = "chat_with:append"
       \/ /\ outcome' = [kind |-> "ChatError", message |-> CALL_FAILED,
                         value |-> NoResponse]
          /\ pc' = "raised"
          /\ UNCHANGED text
    /\ prompt_read' = FALSE
    /\ UNCHANGED <<max_retries, max_empty_chunks, print_chunks,
                   retries, worker, behaviour, response, empty_chunk_count,
                   pending, api_calls, attempts, sleeps, chunks_read,
                   all_undecodable>>
    /\ UNCHANGED <<cmd_pc, response_command, command_local, sub_rest,
                   placeholder_inputs, user_input, executed, user_prompt>>
    /\ UNCHANGED <<printer_vars, driver_vars, response_vars>>

\* gpt.add_to_conversation("assistant", response)
ChatWithAppends ==
    /\ pc = "chat_with:append"
    /\ conversation' = add_to_conversation(conversation, "assistant", text)
    /\ pc' = "chat_with:input"
    /\ UNCHANGED <<max_retries, max_empty_chunks, print_chunks,
                   retries, worker, behaviour, response, text, empty_chunk_count,
                   pending, outcome, api_calls, attempts, sleeps, chunks_read,
                   all_undecodable>>
    /\ UNCHANGED <<printer_vars, driver_vars, response_vars, command_vars>>

\* user_prompt = input("\n> Prompt ([q] to quit): ") and the quit test.
ChatWithInput ==
    /\ pc = "chat_with:input"
    /\ stdout' = stdout \o <<NEWLINE, NEXT_PROMPT>>
    /\ prompt_read' = TRUE
    /\ \E next_prompt \in ChatWithPrompts :
          /\ user_prompt' = <<next_prompt>>
          /\ pc' = IF lower(next_prompt) \in {"", "q", "quit", "exit"}
                   THEN "exit(0)" ELSE "chat_with"
    /\ UNCHANGED <<cmd_pc, response_command, command_local, sub_rest,
                   placeholder_inputs, user_input, executed>>
    /\ UNCHANGED <<max_retries, max_empty_chunks, print_chunks, conversation,
                   retries, worker, behaviour, response, text, empty_chunk_count,
                   pending, outcome, api_calls, attempts, sleeps, chunks_read,
                   all_undecodable>>
    /\ UNCHANGED <<content_printer, printed_raw, last_call, finish_calls,
                   printer_exception>>
    /\ UNCHANGED <<driver_vars, response_vars>>

NextChatWith ==
    \/ ChatWithAddsUser
    \/ ChatWithCallGpt4
    \/ ChatWithAppends
    \/ ChatWithInput

SpecChatWith == InitChatWith /\ [][NextChatWith]_vars



(***************************************************************************)
(* Properties of a turn.                                                   *)
(***************************************************************************)
Ended == pc \in {"done", "raised"}

\* C2: retry bound.  No turn makes more than max_retries + 1 attempts, and
\* a turn in which every attempt received text that is no JSON ends, after
\* exactly max_retries + 1 attempts, with the ChatError "Failed to receive a
\* response from OpenAI." and never with a Response.
C2_RetryBound ==
    /\ attempts <= max_retries + 1
    /\ (Ended /\ all_undecodable) =>
          /\ pc = "raised"
          /\ outcome.kind = "ChatError"
          /\ outcome.message = FAILED_MESSAGE
          /\ attempts = max_retries + 1

\* A turn with retries that ended after only undecodable attempts.
C2_Witness ==
    /\ pc = "raised"
    /\ all_undecodable
    /\ max_retries >= 1
    /\ attempts = max_retries + 1
    /\ sleeps = attempts

\* The next stream element is a chunk with finish reason length.
LengthRead ==
    /\ pc = "read"
    /\ response # <<>>
    /\ Head(response).kind = "ChatCompletionChunk"
    /\ Head(response).finish_reason = "length"

BlanksThenStopRead ==
    /\ pc = "check"
    /\ behaviour.call = "stream"
    /\ behaviour.stream \in BlanksThenStop

BlankCount == Len(behaviour.stream) - 1
StopChunkText ==
    LET c == behaviour.stream[Len(behaviour.stream)].content
    IN  IF c = None THEN <<>> ELSE c.str

\* C4 (as claimed): empty-fragment accounting.  After N blank fragments and
\* a stop fragment the counter is N, and the attempt is retried exactly if
\* N > max_empty_chunks.
C4_EmptyAccounting_Claimed ==
    [][BlanksThenStopRead =>
          /\ empty_chunk_count = BlankCount
          /\ (retries' = retries + 1) <=> (BlankCount > max_empty_chunks)]_vars

\* C4 (amended): after N blank fragments and a stop fragment the counter is
\* N, plus one when the text of the stop fragment is blank too, and the
\* attempt is retried with the too-many-empty-chunks notice exactly if that
\* count is greater than max_empty_chunks.
C4_EmptyAccounting ==
    [][BlanksThenStopRead =>
          /\ empty_chunk_count =
                 BlankCount + (IF IsBlank(StopChunkText) THEN 1 ELSE 0)
          /\ (/\ stdout' = stdout \o <<TOO_MANY_EMPTY_NOTICE, NEWLINE>>
              /\ sleeps' = sleeps + 1
              /\ retries' = retries + 1)
             <=> (empty_chunk_count > max_empty_chunks)]_vars

\* Blank fragments and a blank stop fragment have been counted, and the
\* count is over the limit.
C4_Witness ==
    /\ BlanksThenStopRead
    /\ BlankCount >= 1
    /\ IsBlank(StopChunkText)
    /\ empty_chunk_count = BlankCount + 1
    /\ empty_chunk_count > max_empty_chunks
    /\ max_empty_chunks >= 1

\* The attempt that made the current ContentPrinter is over.
AttemptOver == pc \in {"check", "except", "loop", "done", "raised"}

\* C6 (as claimed): finish() is called exactly once on every extractor.
\* When an attempt that made a ContentPrinter is over, however it ended,
\* finish() has been called on that printer once.
C6_FinishExactlyOnce ==
    /\ finish_calls <= 1
    /\ (AttemptOver /\ last_call # "none") => finish_calls = 1

\* C7 (as claimed): authentication failure is fatal.  An authentication
\* error raised by the client leaves the turn at once, without notice,
\* sleep or further call, and only timeouts and connection errors are
\* retried.
C7_AuthFatal ==
    [][pc = "except" =>
          /\ pending.kind = "AuthenticationError" =>
                /\ pc' = "raised"
                /\ outcome'.kind = "AuthenticationError"
                /\ UNCHANGED <<stdout, sleeps, api_calls, attempts>>
          /\ retries' = retries + 1 =>
                pending.kind \in {"TimeoutError", "APIConnectionError"}]_vars

\* text is JSON whose top level is an object.
IsJsonObject(str) == json_loads(str).ok /\ json_loads(str).val.kind = "object"

\* C8 (as claimed): structured decode contract.  Text that is no JSON, or
\* JSON whose top level is no object, makes the decode step raise
\* ValueError, which turns the attempt into a retry; no other exception
\* leaves the decode step.
C8_DecodeContract ==
    [][(pc = "check" /\ ~TooManyEmpty /\ ~IsJsonObject(text)) =>
          /\ from_json(text).kind = "ValueError"
          /\ retries' = retries + 1
          /\ sleeps' = sleeps + 1
          /\ pc' = "loop"]_vars

\* The call has timed out and the with block has not been left yet.
TimedOut == pc = "shutdown" /\ pending.kind = "TimeoutError"

\* C11 (as claimed): timeout abandonment.  Once future.result has raised
\* TimeoutError the orchestrator goes on to the retry without waiting for
\* the worker: leaving the with block is possible whether or not the
\* worker's call has returned.
C11_TimeoutAbandons == TimedOut => ENABLED ExecutorShutdown

\* C12: attempts are strictly sequential.  A call of client.call_api is
\* started only when no earlier call is still in progress, a timed-out one
\* included, and each start after the first follows exactly one sleep per
\* earlier (failed) attempt.
C12_SequentialCalls ==
    [][api_calls' = api_calls + 1 =>
          /\ worker # "running"
          /\ worker' = "running"
          /\ sleeps = attempts
          /\ sleeps = retries]_vars

\* A second call is in progress after the first one timed out.
C12_Witness ==
    /\ pc = "await"
    /\ worker = "running"
    /\ attempts = 2
    /\ sleeps = 1
    /\ stdout = <<ErrorNotice(""), NEWLINE>>

\* C13 (as claimed): on success the turn result is in the conversation
\* before control returns.  When call_gpt4 has returned a Response, the
\* last message of the conversation is an assistant message that holds the
\* serialized form of that Response.
C13_ResultInConversation ==
    pc = "done" =>
        conversation[Len(conversation)] =
            [role |-> "assistant", content |-> to_json(outcome.value)]

\* C14 (as claimed): cancellation leaves the output clean.  When the
\* process exits on a user interrupt, finish() has been invoked on the
\* current ContentPrinter if that printer has printed text.
C14_InterruptFinishes ==
    (pc = "exit(0)" /\ content_printer.something_printed) => finish_calls = 1

\* C15 (as claimed): marker constants.  The printer that _call_gpt_api
\* drives has the 12-character start marker "content": " and the
\* 3-character end marker quote, comma, newline, and the marker constants
\* of chat.py are the same two literals.
C15_MarkerConstants ==
    pc = "read" =>
        /\ CONTENTS_START_MARKER =
               <<QUOTE, "c", "o", "n", "t", "e", "n", "t", QUOTE, ":", " ", QUOTE>>
        /\ Len(CONTENTS_START_MARKER) = 12
        /\ CONTENTS_END_MARKER = <<QUOTE, ",", NEWLINE>>
        /\ Len(CONTENTS_END_MARKER) = 3
        /\ chat_CONTENTS_START_MARKER = CONTENTS_START_MARKER
        /\ chat_CONTENTS_END_MARKER = CONTENTS_END_MARKER

\* The first attempt received the two fragments {"content": "A (no finish
\* reason) and B", "command": null, "error": null} (finish reason stop) and
\* has read them.
ScenarioRead ==
    /\ pc = "check"
    /\ attempts = 1
    /\ behaviour.call = "stream"
    /\ behaviour.stream =
           <<Chunk(Str(TXT_OPEN), "None"), Chunk(Str(TXT_CLOSE), "stop")>>

\* C16 (as claimed): the two fragments decode to Response(content "AB",
\* command None, error None) in one attempt, and the printer prints nothing.
C16_Scenario_Claimed ==
    [][ScenarioRead =>
          /\ pc' = "done"
          /\ outcome' = [kind |-> "Response", message |-> "",
                         value |-> Response(Str(<<"A", "B">>), None, None)]
          /\ stdout = <<>>
          /\ stdout' = <<>>]_vars

\* C16 (amended): the two fragments decode to Response(content "AB",
\* command None, error None) in one attempt, and the printer, when the
\* turn prints its fragments, prints AB and one newline (nothing when it
\* does not).
C16_Scenario ==
    [][ScenarioRead =>
          /\ pc' = "done"
          /\ outcome' = [kind |-> "Response", message |-> "",
                         value |-> Response(Str(<<"A", "B">>), None, None)]
          /\ stdout = IF print_chunks THEN <<"A", "B", NEWLINE>> ELSE <<>>
          /\ stdout' = stdout]_vars

\* The scenario has been decoded in a turn that prints its fragments.
C16_Witness ==
    /\ pc = "done"
    /\ attempts = 1
    /\ print_chunks
    /\ behaviour.stream =
           <<Chunk(Str(TXT_OPEN), "None"), Chunk(Str(TXT_CLOSE), "stop")>>
    /\ outcome.value.content = Str(<<"A", "B">>)
    /\ stdout = <<"A", "B", NEWLINE>>

\* The length of the longer of the two markers.
LongerMarkerLen ==
    IF Len(CONTENTS_START_MARKER) >= Len(CONTENTS_END_MARKER)
    THEN Len(CONTENTS_START_MARKER) ELSE Len(CONTENTS_END_MARKER)

\* C17 (as claimed): buffer bound.  After every completed print_chunk call
\* the buffer of the printer is shorter than the longer of the two markers.
C17_BufferBound ==
    last_call = "print_chunk" =>
        Len(content_printer.accumulated_chunk) < LongerMarkerLen

\* C18: too many empty fragments override the collected text.  An attempt
\* that ends with more than max_empty_chunks empty fragments is retried
\* with the too-many-empty-chunks notice whatever its text is, well-formed
\* JSON included: the text is not returned.
C18_EmptyOverridesText ==
    [][(pc = "check" /\ empty_chunk_count > max_empty_chunks) =>
          /\ stdout' = stdout \o <<TOO_MANY_EMPTY_NOTICE, NEWLINE>>
          /\ sleeps' = sleeps + 1
          /\ retries' = retries + 1
          /\ pc' = "loop"
          /\ outcome' = NoOutcome]_vars

\* An attempt whose text was a well-formed response has been retried for
\* its empty fragments.
C18_Witness ==
    /\ pc = "loop"
    /\ empty_chunk_count > max_empty_chunks
    /\ from_json(text).kind = "Response"
    /\ retries = 1
    /\ stdout = <<TOO_MANY_EMPTY_NOTICE, NEWLINE>>

\* The text of the fragments of a stream up to and including its first
\* stop fragment.
RECURSIVE StreamText(_)
StreamText(stream) ==
    IF stream = <<>> THEN <<>>
    ELSE LET c == Head(stream).content
             t == IF c = None THEN <<>> ELSE c.str
         IN  IF Head(stream).finish_reason = "stop" THEN t
             ELSE t \o StreamText(Tail(stream))

\* C19: no state carries over between attempts.  The read loop of every
\* attempt starts with an empty text, an empty-fragment count of 0 and a
\* fresh ContentPrinter, and the Response a turn returns is the decoding of
\* the fragments of the attempt that returned it.
C19_FreshAttempt ==
    /\ (pc = "read" /\ chunks_read = 0) =>
          /\ text = <<>>
          /\ empty_chunk_count = 0
          /\ content_printer = ContentPrinter
    /\ pc = "done" =>
          /\ text = StreamText(behaviour.stream)
          /\ outcome.value = from_json(StreamText(behaviour.stream)).value

\* A second attempt has returned a Response after a first attempt that
\* printed text and failed.
C19_Witness ==
    /\ pc = "done"
    /\ attempts = 2
    /\ Len(stdout) > 2
    /\ stdout[1] = "A"
    /\ behaviour.stream = <<Chunk(Str(TXT_OBJECT), "stop")>>
    /\ outcome.value = Response(None, None, None)

\* The retry notices a turn can print.
Notices ==
    {TOO_MANY_EMPTY_NOTICE, ErrorNotice(INVALID_JSON_MESSAGE), ErrorNotice(""),
     ErrorNotice("stream"), ErrorNotice("APIConnectionError"),
     ErrorNotice("AuthenticationError")}
NoticeCount == Cardinality({i \in 1..Len(stdout) : stdout[i] \in Notices})

\* The handler has run once per retried attempt, and a turn that gave up
\* has made max_retries + 1 attempts and as many sleeps.
RetryAccounting ==
    /\ sleeps = retries
    /\ NoticeCount = sleeps
    /\ (pc = "raised" /\ outcome.message = FAILED_MESSAGE) =>
          /\ attempts = max_retries + 1
          /\ sleeps = max_retries + 1

\* The first attempt has ended with text that is valid JSON.
FirstAttemptValidJson == pc = "check" /\ attempts = 1 /\ json_loads(text).ok

\* C20 (as claimed): retry notice and sleep accounting.  The handler
\* (notice and sleep) runs once after every attempt that is retried, the
\* last one included, so a turn that gives up has slept max_retries + 1
\* times; and a first attempt that yields valid JSON ends the turn with one
\* attempt and no sleep.
C20_RetryAccounting_Claimed ==
    /\ []RetryAccounting
    /\ [][FirstAttemptValidJson =>
            /\ pc' \in {"done", "raised"}
            /\ attempts' = 1
            /\ sleeps' = 0]_vars

\* C20 (amended): as claimed, but a first attempt that yields valid JSON
\* ends the turn with one attempt and no sleep only if it counted no more
\* than max_empty_chunks empty fragments; with more it is retried.
C20_RetryAccounting ==
    /\ []RetryAccounting
    /\ [][FirstAttemptValidJson =>
            IF empty_chunk_count <= max_empty_chunks
            THEN /\ pc' \in {"done", "raised"}
                 /\ attempts' = 1
                 /\ sleeps' = 0
            ELSE /\ pc' = "loop"
                 /\ sleeps' = 1]_vars

\* A turn with retries has given up after failures of several kinds.
C20_Witness ==
    /\ pc = "raised"
    /\ outcome.message = FAILED_MESSAGE
    /\ max_retries = 2
    /\ sleeps = 3
    /\ stdout[Len(stdout) - 1] = TOO_MANY_EMPTY_NOTICE
    /\ \E i \in 1..Len(stdout) : stdout[i] = ErrorNotice("")
    /\ \E i \in 1..Len(stdout) : stdout[i] = ErrorNotice(INVALID_JSON_MESSAGE)

\* The next stream element is a chunk with finish reason stop.
StopRead ==
    /\ pc = "read"
    /\ response # <<>>
    /\ Head(response).kind = "ChatCompletionChunk"
    /\ Head(response).finish_reason = "stop"

\* The text of a fragment: its content, or the empty text for no content.
FragmentText(chunk) == IF chunk.content = None THEN <<>> ELSE chunk.content.str

\* The fragment text ft has been handed to print_chunk of the attempt's
\* printer.
FedToExtractor(ft) ==
    /\ content_printer' = print_chunk(World, ft).cp
    /\ stdout' = print_chunk(World, ft).out
    /\ printed_raw' = print_chunk(World, ft).raw
    /\ last_call' = "print_chunk"

\* Reading a stop fragment appends its text, ends the read loop with the
\* text of the fragments up to and including it, and once the loop has
\* ended the attempt consumes no further fragment.
StopEndsReading ==
    /\ StopRead =>
          /\ text' = text \o FragmentText(Head(response))
          /\ text' = StreamText(behaviour.stream)
          /\ pc' = "finish"
          /\ response' = Tail(response)
    /\ pc \in {"finish", "check"} => UNCHANGED <<response, chunks_read, text>>

\* C21 (as claimed): stop ends reading.  The text of a fragment with finish
\* reason stop is appended to the accumulated text and fed to the
\* extractor, no later fragment of the stream is consumed in that attempt,
\* and the accumulated text is the concatenation of the texts of the
\* fragments up to and including the stop fragment.
C21_StopEndsReading_Claimed ==
    [][/\ StopEndsReading
       /\ StopRead => FedToExtractor(FragmentText(Head(response)))]_vars

\* C21 (amended): as claimed, but the text of the stop fragment is fed to
\* the extractor only in a turn that prints its fragments (print_chunks);
\* in a turn that does not, the extractor and the output are left alone.
C21_StopEndsReading ==
    [][/\ StopEndsReading
       /\ StopRead =>
             IF print_chunks
             THEN FedToExtractor(FragmentText(Head(response)))
             ELSE UNCHANGED <<content_printer, stdout, printed_raw, last_call>>]_vars

\* A printing turn has returned after a stop fragment that was followed in
\* the stream by a fragment that was never read.
C21_Witness ==
    /\ pc = "done"
    /\ print_chunks
    /\ chunks_read = 2
    /\ response = <<Chunk(Str(<<"x">>), "None")>>
    /\ text = TXT_OPEN \o TXT_CLOSE
    /\ stdout = <<"A", "B", NEWLINE>>

\* The command with its placeholders, from the left, replaced by inputs.
RECURSIVE Substitute(_, _)
Substitute(s, inputs) ==
    IF inputs = <<>> \/ PlaceholderStart(s) = 0 THEN s
    ELSE SubSeq(s, 1, PlaceholderStart(s) - 1) \o Head(inputs)
             \o Substitute(From(s, PlaceholderEnd(s, PlaceholderStart(s)) + 1),
                           Tail(inputs))

\* The user typed / or /* for a placeholder.
RootInput ==
    \E i \in 1..Len(placeholder_inputs) :
        placeholder_inputs[i] \in {ROOT, ROOT_WILDCARD}

\* The prompt of do_command has been shown for the command c.
PromptShownFor(c) ==
    \E i \in 1..Len(stdout) :
        SubSeq(stdout, i, i + Len(c) + Len(<<GRAVE, NEWLINE, COMMAND_PROMPT>>) + 1)
            = <<COMMAND_LABEL, GRAVE>> \o c \o <<GRAVE, NEWLINE, COMMAND_PROMPT>>

\* review_command has been passed or has ended the program.
Reviewed == cmd_pc \in {"input", "match", "exit(0)", "exit(1)", "returned"}

OtherReasonRead ==
    /\ pc = "read"
    /\ response # <<>>
    /\ Head(response).kind = "ChatCompletionChunk"
    /\ Head(response).finish_reason \notin {"None", "stop", "length"}

\* A ChatError for an unexpected finish reason is in flight.
OtherReasonRaised ==
    /\ pc = "except"
    /\ pending.kind = "ChatError"
    /\ pending.message \notin {MAX_TOKENS_MESSAGE,
                                "Received a tuple instead of a ChatCompletionChunk",
                                "Received an unexpected chunk type"}

\* C23: an unexpected finish reason is fatal.  Reading a fragment whose
\* finish reason is neither absent, stop nor length raises a ChatError that
\* names the reason and leaves the turn at once: no notice, no sleep, no
\* retry and no further attempt, and the text of that fragment is neither
\* appended to the accumulated text nor fed to the extractor.
C23_OtherReasonFatal ==
    [][/\ OtherReasonRead =>
            /\ pending' = ChatError(UNEXPECTED_REASON_MESSAGE \o ": "
                                        \o Head(response).finish_reason)
            /\ pc' = "except"
            /\ UNCHANGED <<text, content_printer, stdout, printed_raw, last_call,
                           empty_chunk_count, sleeps, retries, attempts, api_calls>>
       /\ OtherReasonRaised =>
            /\ pc' = "raised"
            /\ outcome' = [kind |-> "ChatError", message |-> pending.message,
                           value |-> NoResponse]
            /\ UNCHANGED <<text, content_printer, stdout, printed_raw, last_call,
                           sleeps, retries, attempts, api_calls, response,
                           chunks_read>>]_vars

\* A printing turn with retries left has ended on a fragment with finish
\* reason content_filter, after the text of the fragment before it was
\* printed.
C23_Witness ==
    /\ pc = "raised"
    /\ outcome.kind = "ChatError"
    /\ outcome.message = "unexpected completion reason: content_filter"
    /\ retries < max_retries
    /\ attempts = 1
    /\ sleeps = 0
    /\ text = TXT_OPEN
    /\ stdout = <<"A">>

\* The step is a print_chunk call on a lone printer, and NextFragment is
\* its argument.
PrintChunkStep == finish_calls = 0 /\ last_call' = "print_chunk"
NextFragment == SubSeq(logical_text, fed + 1, fed')

\* The buffer print_chunk scans: the old buffer and the new fragment.
ScannedBuffer == content_printer.accumulated_chunk \o NextFragment

\* The text of buf after its first start marker, up to the first end
\* marker after it or, without one, to the end of buf.
AfterStartMarker(buf) ==
    SubSeq(buf,
           Find(buf, CONTENTS_START_MARKER, 1) + Len(CONTENTS_START_MARKER),
           IF Find(buf, CONTENTS_END_MARKER,
                   Find(buf, CONTENTS_START_MARKER, 1) + Len(CONTENTS_START_MARKER)) = 0
           THEN Len(buf)
           ELSE Find(buf, CONTENTS_END_MARKER,
                     Find(buf, CONTENTS_START_MARKER, 1)
                         + Len(CONTENTS_START_MARKER)) - 1)

\* C24: searching without a start marker.  A print_chunk call made while
\* the printer is searching, whose buffer plus fragment holds no complete
\* start marker, writes nothing, leaves the printer searching and leaves
\* the old buffer followed by the whole fragment in the buffer; so the call
\* that brings the last character of a start marker, however the marker
\* was split, finds it and hands the text after it to printing.
C24_SearchingKeepsBuffer ==
    [][(PrintChunkStep /\ ~content_printer.printing_contents) =>
          IF ~Contains(ScannedBuffer, CONTENTS_START_MARKER)
          THEN /\ stdout' = stdout
               /\ printed_raw' = printed_raw
               /\ ~content_printer'.printing_contents
               /\ content_printer'.something_printed
                      = content_printer.something_printed
               /\ content_printer'.accumulated_chunk = ScannedBuffer
          ELSE /\ printed_raw' = printed_raw \o AfterStartMarker(ScannedBuffer)
               /\ Len(content_printer'.accumulated_chunk) < Len(ScannedBuffer)]_vars

\* A searching printer holds, after several print_chunk calls or one, the
\* text in front of the start marker and the marker but for its last
\* character, and has written nothing.
C24_Witness ==
    /\ last_call = "print_chunk"
    /\ ~content_printer.printing_contents
    /\ content_printer.accumulated_chunk =
           <<"{">> \o SubSeq(CONTENTS_START_MARKER, 1, Len(CONTENTS_START_MARKER) - 1)
    /\ fed = Len(CONTENTS_START_MARKER)
    /\ stdout = <<>>

\* The printer has written the text t, unescaped, and has gone back to
\* searching with rest as its buffer.
FieldEnded(t, rest) ==
    /\ printed_raw' = printed_raw \o t
    /\ stdout' = stdout \o Unescaped(t)
    /\ ~content_printer'.printing_contents
    /\ content_printer'.accumulated_chunk = rest

\* The position in buf after its first start marker.
FieldStart(buf) ==
    Find(buf, CONTENTS_START_MARKER, 1) + Len(CONTENTS_START_MARKER)

\* C25: end marker found.  When a print_chunk call finds the end marker,
\* while printing or in the scan that has just found the start marker, the
\* text of the field in front of the end marker, and nothing else, is
\* unescaped and written, the printer goes back to searching, and its
\* buffer is the text that follows the end marker.
C25_EndMarkerFound ==
    [][PrintChunkStep =>
          /\ (/\ content_printer.printing_contents
              /\ Contains(ScannedBuffer, CONTENTS_END_MARKER)) =>
                FieldEnded(
                    SubSeq(ScannedBuffer, 1,
                           Find(ScannedBuffer, CONTENTS_END_MARKER, 1) - 1),
                    From(ScannedBuffer,
                         Find(ScannedBuffer, CONTENTS_END_MARKER, 1)
                             + Len(CONTENTS_END_MARKER)))
          /\ (/\ ~content_printer.printing_contents
              /\ Contains(ScannedBuffer, CONTENTS_START_MARKER)
              /\ Find(ScannedBuffer, CONTENTS_END_MARKER,
                      FieldStart(ScannedBuffer)) # 0) =>
                FieldEnded(
                    SubSeq(ScannedBuffer, FieldStart(ScannedBuffer),
                           Find(ScannedBuffer, CONTENTS_END_MARKER,
                                FieldStart(ScannedBuffer)) - 1),
                    From(ScannedBuffer,
                         Find(ScannedBuffer, CONTENTS_END_MARKER,
                              FieldStart(ScannedBuffer))
                             + Len(CONTENTS_END_MARKER)))]_vars

\* A print_chunk call has found the end marker in a fragment that also held
\* the text after it: the field A\n has been written as A and a newline,
\* and the text after the marker is the buffer.
C25_Witness ==
    /\ last_call = "print_chunk"
    /\ fed = Len(logical_text)
    /\ ~content_printer.printing_contents
    /\ content_printer.accumulated_chunk = <<" ", "}">>
    /\ printed_raw = <<"A", BACKSLASH, "n">>
    /\ stdout = <<"A", NEWLINE>>

\* The strict, non-empty prefixes of the end marker.
EndMarkerPrefixes ==
    {SubSeq(CONTENTS_END_MARKER, 1, k) : k \in 1..(Len(CONTENTS_END_MARKER) - 1)}

\* The text s without its last n characters.
DropLast(s, n) == SubSeq(s, 1, Len(s) - n)

\* C26: split end marker while printing.  When the scanned buffer holds no
\* complete end marker but ends with a strict, non-empty prefix of it,
\* everything in front of that prefix is written, the prefix alone is kept
\* and the printer goes on printing.  When the next fragment completes the
\* marker the field ends and the prefix is never written; when it brings
\* other text, the withheld prefix is written in front of that text.
C26_SplitEndMarker ==
    [][(PrintChunkStep /\ content_printer.printing_contents) =>
          /\ \A prefix \in EndMarkerPrefixes :
                (/\ ~Contains(ScannedBuffer, CONTENTS_END_MARKER)
                 /\ EndsWith(ScannedBuffer, prefix)) =>
                   /\ printed_raw' =
                          printed_raw \o DropLast(ScannedBuffer, Len(prefix))
                   /\ stdout' =
                          stdout \o Unescaped(DropLast(ScannedBuffer, Len(prefix)))
                   /\ content_printer'.accumulated_chunk = prefix
                   /\ content_printer'.printing_contents
          /\ \A prefix \in EndMarkerPrefixes :
                (/\ content_printer.accumulated_chunk = prefix
                 /\ NextFragment # <<>>) =>
                   IF IsPrefix(CONTENTS_END_MARKER, ScannedBuffer)
                   THEN /\ printed_raw' = printed_raw
                        /\ stdout' = stdout
                        /\ ~content_printer'.printing_contents
                        /\ content_printer'.accumulated_chunk =
                               From(ScannedBuffer, Len(CONTENTS_END_MARKER) + 1)
                   ELSE /\ IsPrefix(printed_raw \o prefix, printed_raw')
                        /\ IsPrefix(printed_raw', printed_raw \o ScannedBuffer)
                        /\ IsPrefix(stdout \o prefix, stdout')]_vars

\* A printer that is printing the field A"A has written A and withholds
\* the quote, which is no end marker.
C26_Witness ==
    /\ last_call = "print_chunk"
    /\ content_printer.printing_contents
    /\ content_printer.accumulated_chunk = <<QUOTE>>
    /\ FieldValue(logical_text) = <<"A", QUOTE, "A">>
    /\ printed_raw = <<"A">>
    /\ stdout = <<"A">>

\* The printer as it would be had it been printing with only the text after
\* the start marker of the scanned buffer in its buffer.
AsEmitting ==
    [cp |-> [content_printer EXCEPT
                !.accumulated_chunk =
                    From(ScannedBuffer, FieldStart(ScannedBuffer)),
                !.printing_contents = TRUE],
     out |-> stdout,
     raw |-> printed_raw,
     exc |-> printer_exception]

\* C27 (as claimed): start marker found while searching.  The text that
\* follows the start marker in the scan that finds it is handled as text in
\* a printing printer is: with no complete end marker in it, a strict prefix
\* of the end marker or a lone backslash at its end is withheld in the
\* buffer and not written.
C27_StartHandledAsEmitting ==
    [][(/\ PrintChunkStep
        /\ ~content_printer.printing_contents
        /\ Contains(ScannedBuffer, CONTENTS_START_MARKER)) =>
          /\ content_printer' = continue_printing_content(AsEmitting).cp
          /\ stdout' = continue_printing_content(AsEmitting).out
          /\ printed_raw' = continue_printing_content(AsEmitting).raw]_vars

\* The number of backslashes s ends with.
RECURSIVE TrailingBackslashes(_)
TrailingBackslashes(s) ==
    IF s = <<>> \/ s[Len(s)] # BACKSLASH THEN 0
    ELSE TrailingBackslashes(DropLast(s, 1)) + 1

\* s ends with a backslash that introduces an escape whose second character
\* is not there yet.
EndsWithLoneIntroducer(s) == TrailingBackslashes(s) % 2 = 1

\* s ends with a complete two character escape.
EndsWithCompleteEscape(s) ==
    s # <<>> /\ EndsWithLoneIntroducer(DropLast(s, 1))

\* The scanned buffer of a printing printer holds no end marker and does not
\* end with a strict prefix of it.
NoEndMarkerInSight ==
    /\ content_printer.printing_contents
    /\ ~Contains(ScannedBuffer, CONTENTS_END_MARKER)
    /\ \A prefix \in EndMarkerPrefixes : ~EndsWith(ScannedBuffer, prefix)

\* C28 (as claimed): split escape sequence while printing.  When the
\* scanned buffer ends with a lone escape-introducing backslash, the text
\* in front of it is written, that one backslash is kept and the printer
\* goes on printing; when it ends with a complete two character escape, an
\* escaped backslash included, the whole buffer is written, decoded, and
\* nothing is kept.
C28_SplitEscape ==
    [][(PrintChunkStep /\ NoEndMarkerInSight) =>
          /\ EndsWithLoneIntroducer(ScannedBuffer) =>
                /\ printed_raw' = printed_raw \o DropLast(ScannedBuffer, 1)
                /\ content_printer'.accumulated_chunk = <<BACKSLASH>>
                /\ content_printer'.printing_contents
          /\ EndsWithCompleteEscape(ScannedBuffer) =>
                /\ printed_raw' = printed_raw \o ScannedBuffer
                /\ stdout' = stdout \o Unescaped(ScannedBuffer)
                /\ content_printer'.accumulated_chunk = <<>>
                /\ content_printer'.printing_contents]_vars

(***************************************************************************)
(* C29: exceptions of the extractor.                                       *)
(***************************************************************************)
\* C29 (as claimed): the extractor never raises.  Whatever fragments
\* print_chunk has been given, no call has ended with an exception: a piece
\* that cannot be decoded is written raw and the call returns.
C29_NeverRaises == printer_exception = NO_EXCEPTION

(***************************************************************************)
(* C30: transport failures.                                                *)
(***************************************************************************)
\* The exceptions of the transport: the timeout of future.result and the
\* OpenAIErrors of the client call and of the iteration over the stream.
TransportFailures == OPENAI_ERRORS \cup {"TimeoutError"}

\* An attempt has ended with a transport failure that is about to be handled.
TransportFailed == pc = "except" /\ pending.kind \in TransportFailures

\* The caller has been given the ChatError of the used-up budget.
FailedToReceive == outcome.kind = "ChatError" /\ outcome.message = FAILED_MESSAGE

\* C30: a timeout of the client call, or an OpenAIError raised by the client
\* call or while the fragment stream is read, ends the attempt as a
\* retryable failure: the retry notice is printed, the delay is slept, the
\* attempt counter goes up by one and the loop test is next.  The caller
\* never gets a transport failure as the outcome, and gets the "Failed to
\* receive a response" ChatError only with the attempt budget used up.
C30_TransportRetryable ==
    /\ [](outcome.kind \notin TransportFailures)
    /\ [](FailedToReceive => retries > max_retries)
    /\ [][TransportFailed =>
             /\ stdout' = stdout \o <<ErrorNotice(pending.message), NEWLINE>>
             /\ sleeps' = sleeps + 1
             /\ retries' = retries + 1
             /\ pc' = "loop"
             /\ outcome' = outcome]_vars

\* C30 witness: the budget is used up and the caller has the ChatError,
\* after a last attempt that ended with an OpenAIError while the stream was
\* read and was retried with notice and sleep.
C30_Witness ==
    /\ FailedToReceive
    /\ pending = Exception("APIConnectionError", "stream")
    /\ chunks_read > 0
    /\ sleeps > 0

(***************************************************************************)
(* C31: stream elements that are not ChatCompletionChunks.                 *)
(***************************************************************************)
\* The next element of the stream is read and is not a ChatCompletionChunk:
\* a 2-tuple, or a value of any other type.
NotAChunkRead ==
    /\ pc = "read"
    /\ response # <<>>
    /\ Head(response).kind \notin {"ChatCompletionChunk", "raise"}

\* The next element is a ChatCompletionChunk with no finish reason.
PlainChunkRead ==
    /\ pc = "read"
    /\ response # <<>>
    /\ Head(response).kind = "ChatCompletionChunk"
    /\ Head(response).finish_reason = "None"

\* A ChatError of _check_returned_chunk is pending or has been raised.
CHUNK_TYPE_MESSAGES ==
    {"Received a tuple instead of a ChatCompletionChunk",
     "Received an unexpected chunk type"}
ChunkTypeError(e) == e.kind = "ChatError" /\ e.message \in CHUNK_TYPE_MESSAGES

\* C31: a stream element that is not a ChatCompletionChunk ends the turn
\* with a ChatError and without retry: reading it raises the ChatError with
\* nothing appended to the text, and the ChatError goes to the caller with
\* no notice, no sleep and no further attempt.  A ChatCompletionChunk is
\* passed through unchanged: its own text is what is appended.
C31_NotAChunkFatal ==
    /\ [][NotAChunkRead =>
             /\ ChunkTypeError(pending')
             /\ pc' = "except"
             /\ UNCHANGED <<text, empty_chunk_count, stdout, retries, sleeps>>]_vars
    /\ [][(pc = "except" /\ ChunkTypeError(pending)) =>
             /\ pc' = "raised"
             /\ outcome'.kind = "ChatError"
             /\ outcome'.message = pending.message
             /\ UNCHANGED <<stdout, retries, sleeps, attempts, api_calls>>]_vars
    /\ [][PlainChunkRead =>
             /\ text' = text \o FragmentText(Head(response))
             /\ pending' = NoException
             /\ pc' = "read"]_vars

\* C31 witness: the turn has ended with the ChatError of a 2-tuple that
\* came after a ChatCompletionChunk whose text had been taken.
C31_Witness ==
    /\ pc = "raised"
    /\ outcome.kind = "ChatError"
    /\ outcome.message = "Received a tuple instead of a ChatCompletionChunk"
    /\ text = TXT_OPEN
    /\ chunks_read = 2

(***************************************************************************)
(* C32: a Response with an error ends the session.                         *)
(***************************************************************************)
\* call_gpt4 has returned a Response whose error field is a non-empty text.
ErrorReturned ==
    /\ pc = "done"
    /\ outcome.value.error # None
    /\ outcome.value.error.str # <<>>

\* C32: in converse, a decoded Response whose error field is non-empty ends
\* the session with exit status 1.  The step that follows call_gpt4 prints
\* the error and exits; it appends no assistant message and starts no
\* do_command, so no command prompt is shown and nothing is executed, even
\* with the command field set; and nothing happens after the exit.
C32_ErrorEndsSession ==
    /\ [][ErrorReturned =>
             /\ pc' = "exit(1)"
             /\ stdout' = stdout \o <<ERROR_HEADER, NEWLINE>>
                                 \o outcome.value.error.str
                                 \o <<NEWLINE, EXITING, NEWLINE>>
             /\ UNCHANGED <<conversation, command_vars>>]_vars
    /\ [][pc # "exit(1)"]_vars
    /\ [](pc = "exit(1)" =>
             /\ conversation[Len(conversation)].role = "user"
             /\ cmd_pc = "idle"
             /\ executed = <<>>)

\* C32 witness: the session has exited with status 1 in its second turn on
\* a Response that has an error and a command.
C32_Witness ==
    /\ pc = "exit(1)"
    /\ outcome.value.command = Str(CMD_LS)
    /\ outcome.value.error = Str(<<"e">>)
    /\ MessagesOf(conversation, "user") = 2
    /\ MessagesOf(conversation, "assistant") = 1

(***************************************************************************)
(* C33: the conversation during a turn.                                    *)
(***************************************************************************)
\* The conversation of a turn: what it was before the turn and the user
\* message of the turn.
TurnConversation ==
    <<[role |-> "system", content |-> <<"s">>],
      [role |-> "user", content |-> USER_PROMPT]>>

\* Positions of the turn between the append of call_gpt4 and its end.
InTurn == pc \notin {"idle", "done", "appended"}

\* C33: the conversation is untouched by retries.  call_gpt4 appends one
\* user message, before the first attempt; from then to the end of the
\* turn no step (attempt, retry, give-up, propagation) changes the
\* conversation, so every attempt is made with the same messages; and a
\* turn that has failed with an exception still has the user message.
C33_ConversationFrame ==
    /\ [][pc = "idle" =>
             /\ conversation' = Append(conversation,
                                       [role |-> "user", content |-> USER_PROMPT])
             /\ attempts' = 0
             /\ api_calls' = 0]_vars
    /\ [][InTurn => conversation' = conversation]_vars
    /\ []((InTurn \/ pc = "done") => conversation = TurnConversation)

\* C33 witness: the turn has failed with the budget used up after at least
\* two attempts, and the conversation is the system message and the user
\* message.
C33_Witness ==
    /\ pc = "raised"
    /\ attempts >= 2
    /\ sleeps >= 2
    /\ conversation = TurnConversation

(***************************************************************************)
(* C34: conservation of the field text while printing.                     *)
(***************************************************************************)
\* The raw text the step has handed to printing.
HandedToPrinting == SubSeq(printed_raw', Len(printed_raw) + 1, Len(printed_raw'))

\* The end marker, if the step has found and consumed one.
ConsumedEndMarker ==
    IF content_printer'.printing_contents THEN <<>> ELSE CONTENTS_END_MARKER

SomethingPrintedTracksOutput ==
    /\ [](last_call = "__init__" => ~content_printer.something_printed)
    /\ [][content_printer.something_printed =>
             content_printer'.something_printed]_vars
    /\ [](finish_calls = 0 =>
             (content_printer.something_printed <=> stdout # <<>>))

\* C35 (as claimed): something_printed is false initially, never goes back
\* to false, and after any print_chunk calls is true if and only if the
\* printer has written a non-empty string; a field whose value is empty
\* leaves it false, however the text is fragmented, so that finish() then
\* prints no newline.
C35_SomethingPrinted ==
    /\ SomethingPrintedTracksOutput
    /\ [](FieldValue(logical_text) = <<>> =>
             /\ ~content_printer.something_printed
             /\ stdout = <<>>)

(***************************************************************************)
(* C36: live printing and the result of the turn.                          *)
(***************************************************************************)
\* What the read loop does with a stream element apart from printing: the
\* exception it raises, from the iteration, from _check_returned_chunk or
\* from _process_response_chunk.
RaisedByElement(chunk) ==
    IF chunk.kind = "raise" THEN Exception("APIConnectionError", "stream")
    ELSE IF check_returned_chunk(chunk) # NoException
    THEN check_returned_chunk(chunk)
    ELSE process_response_chunk(chunk).raise

\* C36 (as claimed): live printing is a pure side channel.  What a round of
\* the read loop does to the accumulated text, the empty-fragment count,
\* the exception in flight and the position of the turn is fixed by the
\* stream element alone, the same with print_chunks true and false and in
\* every state of the extractor; so attempts, sleeps and the outcome of the
\* turn do not depend on print_chunks.
C36_PrintingSideChannel ==
    [][(pc = "read" /\ response # <<>>) =>
          IF RaisedByElement(Head(response)) # NoException
          THEN /\ pending' = RaisedByElement(Head(response))
               /\ pc' = "except"
               /\ UNCHANGED <<text, empty_chunk_count>>
          ELSE /\ pending' = NoException
               /\ text' = text \o process_response_chunk(Head(response)).text
               /\ empty_chunk_count' =
                      IF IsBlank(process_response_chunk(Head(response)).text)
                      THEN empty_chunk_count + 1 ELSE empty_chunk_count
               /\ pc' = IF process_response_chunk(Head(response)).stop
                        THEN "finish" ELSE "read"]_vars

(***************************************************************************)
(* C37: the empty-fragment counter.                                        *)
(***************************************************************************)
\* The number of fragments read in this attempt whose text is empty,
\* whitespace only or absent.
BlankFragmentsRead ==
    Cardinality({i \in 1..chunks_read :
                    IsBlank(FragmentText(behaviour.stream[i]))})

\* The attempt is in its read loop or has left it without an exception:
\* every fragment read so far was accepted.
AllAccepted == pc \in {"read", "finish", "check"}

\* The next element is a fragment that is accepted: a ChatCompletionChunk
\* with finish reason stop or none.
AcceptedRead ==
    /\ pc = "read"
    /\ response # <<>>
    /\ Head(response).kind = "ChatCompletionChunk"
    /\ Head(response).finish_reason \in {"stop", "None"}

\* C37: the empty-fragment counter goes up by one for every accepted
\* fragment whose text is empty, whitespace only or absent, whatever its
\* finish reason, a stop fragment without content included, and is left
\* alone by a fragment with other text; so the count of an attempt is the
\* number of accepted fragments with blank text.
C37_EmptyCounter ==
    /\ [][AcceptedRead =>
             empty_chunk_count' =
                 IF IsBlank(FragmentText(Head(response)))
                 THEN empty_chunk_count + 1
                 ELSE empty_chunk_count]_vars
    /\ [](AllAccepted => empty_chunk_count = BlankFragmentsRead)

\* C37 witness: an attempt has ended on a stop fragment without content
\* that came after a blank fragment, and both have been counted.
C37_Witness ==
    /\ pc = "check"
    /\ chunks_read = 2
    /\ behaviour.stream[2] = Chunk(None, "stop")
    /\ empty_chunk_count = 2

(***************************************************************************)
(* C38: the roles of the conversation.                                     *)
(***************************************************************************)
\* After the system message the roles are user, assistant, user, ...
RolesAlternate(conv) ==
    /\ conv[1].role = "system"
    /\ \A i \in 2..Len(conv) :
          conv[i].role = IF i % 2 = 0 THEN "user" ELSE "assistant"

\* C38 (as claimed): role alternation.  In a session of converse and in a
\* session of chat_with every turn puts one user message in the
\* conversation and, on success, one assistant message after it, so the
\* roles after the system message alternate user, assistant.
C38_RoleAlternation == RolesAlternate(conversation)

(***************************************************************************)
(* C39: a request needs a prompt from the user.                            *)
(***************************************************************************)
\* The step is a call of gpt.call_gpt4 by converse.
ConverseCallStep == pc = "converse" /\ conversation' # conversation

\* C39 (as claimed): converse sends a new request only after a new prompt
\* was obtained from the user.  Whenever converse calls call_gpt4, input()
\* has been read since the previous call (or, for the first call, by
\* main), whatever Response the previous call returned.
C39_PromptBeforeRequest == [][ConverseCallStep => prompt_read]_vars

\* The printer is in its EMITTING state (printing_contents) or in its
\* SEARCHING state.
Emitting == content_printer.printing_contents
Searching == ~content_printer.printing_contents

\* C40: single field per turn.  Once the printer has been EMITTING and is
\* SEARCHING again (it has consumed an end marker), a print_chunk call
\* writes nothing more to the output, whatever the later fragments hold, a
\* second start marker included.
C40_SingleField ==
    [][(was_printing /\ Searching /\ PrintChunkStep) => stdout' = stdout]_vars

====
